---------------------------- MODULE Spec2Model ----------------------------
(***************************************************************************)
(* The allocation and rounding engine of the rebalancer: the two           *)
(* allocation strategies (calculateRebalance, calculateRebalanceMinTrades), *)
(* the whole-share converter (convertToWholeShares) and the trade generator *)
(* (generateTrades).                                                        *)
(*                                                                         *)
(* Numbers.  The code computes in IEEE doubles.  Here every dollar figure   *)
(* is an integer number of mills (1/Dollar of a dollar) and every current   *)
(* share count an integer number of 1/ShareUnit shares; a product or        *)
(* quotient that is not a whole number of mills is rounded to the nearest   *)
(* mill (RoundDiv).  Ideal share counts (targetAmount / price) are kept as  *)
(* exact fractions.  The code's one-cent tolerance is Cent = 10 mills, so   *)
(* the rounding of the representation stays an order of magnitude below it. *)
(***************************************************************************)
EXTENDS Integers, Sequences, FiniteSets, TLC

\* One dollar, in the unit of every amount, price and targetAmount (mills).
Dollar == 1000

\* Current share counts are held in units of 1/ShareUnit share.
ShareUnit == 2

\* The 0.01 of the code's dollar comparisons.
Cent == Dollar \div 100

\* An absent optional field (targetPercent, targetAmount, targetShares).
Undefined == -1

---------------------------------------------------------------------------
\* Arithmetic helpers

Min(a, b) == IF a <= b THEN a ELSE b

Max(a, b) == IF a >= b THEN a ELSE b

Abs(a) == IF a < 0 THEN -a ELSE a

\* n / d rounded to the nearest integer, halves up (d > 0).
RoundDiv(n, d) == (2 * n + d) \div (2 * d)

RECURSIVE SeqSum(_)
SeqSum(s) == IF s = <<>> THEN 0 ELSE Head(s) + SeqSum(Tail(s))

\* Variant of the ascending sort that leaves the array in its input order.
SortAscKeepsOrder(s) == s

\* Array.prototype.sort with comparator (a, b) => a.k - b.k: stable, ascending.
RECURSIVE SortAsc(_)
SortAsc(s) ==
  IF Len(s) <= 1 THEN s
  ELSE LET x == s[Len(s)]
           r == SortAsc(SubSeq(s, 1, Len(s) - 1))
           n == Cardinality({i \in DOMAIN r : r[i].k <= x.k})
       IN SubSeq(r, 1, n) \o <<x>> \o SubSeq(r, n + 1, Len(r))

\* Variant of the descending sort that is not stable: among equal keys the
\* later element comes first.
RECURSIVE SortDescTiesReversed(_)
SortDescTiesReversed(s) ==
  IF Len(s) <= 1 THEN s
  ELSE LET x == s[Len(s)]
           r == SortDescTiesReversed(SubSeq(s, 1, Len(s) - 1))
           n == Cardinality({i \in DOMAIN r : r[i].k > x.k})
       IN SubSeq(r, 1, n) \o <<x>> \o SubSeq(r, n + 1, Len(r))

\* Array.prototype.sort with comparator (a, b) => b.k - a.k: stable, descending.
RECURSIVE SortDesc(_)
SortDesc(s) ==
  IF Len(s) <= 1 THEN s
  ELSE LET x == s[Len(s)]
           r == SortDesc(SubSeq(s, 1, Len(s) - 1))
           n == Cardinality({i \in DOMAIN r : r[i].k >= x.k})
       IN SubSeq(r, 1, n) \o <<x>> \o SubSeq(r, n + 1, Len(r))

---------------------------------------------------------------------------
\* Quantities both strategies compute first

\* holdings.reduce((sum, h) => sum + h.amount, 0)
TotalValue(holdings) == SeqSum([i \in DOMAIN holdings |-> holdings[i].amount])

\* accountTotals.get(account) || 0
AccountTotal(holdings, account) ==
  SeqSum([i \in DOMAIN holdings |->
            IF holdings[i].account = account THEN holdings[i].amount ELSE 0])

\* Array.from(accountTotals.keys()): the accounts in order of first appearance.
RECURSIVE AllAccounts(_)
AllAccounts(holdings) ==
  IF holdings = <<>> THEN <<>>
  ELSE LET front == AllAccounts(SubSeq(holdings, 1, Len(holdings) - 1))
           a == holdings[Len(holdings)].account
       IN IF \E i \in DOMAIN front : front[i] = a THEN front ELSE Append(front, a)

\* totalValue * (symbol.targetPercent / 100)
SymbolTarget(totalValue, targetPercent) == RoundDiv(totalValue * targetPercent, 100)

\* The allocations map: "symbol:account" -> dollars, an absent key reading as 0
\* (every read of the map is allocations.get(key) || 0 or a sum over its entries).
NoAllocations(symbols, holdings) ==
  [p \in {symbols[i].name : i \in DOMAIN symbols}
         \X {holdings[i].account : i \in DOMAIN holdings} |-> 0]

\* Sum of the allocations whose key ends with ":account".
AccountUsed(allocations, account) ==
  LET keys == {p \in DOMAIN allocations : p[2] = account}
      RECURSIVE S(_)
      S(K) == IF K = {} THEN 0
              ELSE LET p == CHOOSE q \in K : TRUE IN allocations[p] + S(K \ {p})
  IN S(keys)

\* Sum of the allocations whose key starts with "symbol:".
SymbolAllocated(allocations, symbol) ==
  LET keys == {p \in DOMAIN allocations : p[1] = symbol}
      RECURSIVE S(_)
      S(K) == IF K = {} THEN 0
              ELSE LET p == CHOOSE q \in K : TRUE IN allocations[p] + S(K \ {p})
  IN S(keys)

\* Variant of the result construction that emits the rows of the targeted
\* symbols only, dropping the holdings of symbols without a target.
BuildResultDropsUntargeted(symbols, holdings, allocations) ==
  LET accts == AllAccounts(holdings)
      TargetRows(a) ==
        LET defined == SelectSeq(symbols, LAMBDA s : s.targetPercent # Undefined)
        IN [i \in DOMAIN defined |->
              LET s == defined[i]
                  existing == SelectSeq(holdings,
                                LAMBDA h : h.symbol = s.name /\ h.account = a)
              IN [symbol |-> s.name, account |-> a,
                  shares |-> IF existing = <<>> THEN 0 ELSE existing[1].shares,
                  price |-> s.price,
                  amount |-> IF existing = <<>> THEN 0 ELSE existing[1].amount,
                  targetAmount |-> allocations[<<s.name, a>>],
                  targetShares |-> Undefined]]
      RECURSIVE Rows(_)
      Rows(i) == IF i > Len(accts) THEN <<>>
                 ELSE TargetRows(accts[i]) \o Rows(i + 1)
  IN Rows(1)

\* The result rows both strategies build from the allocations: per account, one
\* row per symbol with a defined targetPercent, then one liquidation row per
\* holding of the account whose symbol has no targetPercent.
BuildResult(symbols, holdings, allocations) ==
  LET accts == AllAccounts(holdings)
      TargetRows(a) ==
        LET defined == SelectSeq(symbols, LAMBDA s : s.targetPercent # Undefined)
        IN [i \in DOMAIN defined |->
              LET s == defined[i]
                  existing == SelectSeq(holdings,
                                LAMBDA h : h.symbol = s.name /\ h.account = a)
              IN [symbol |-> s.name, account |-> a,
                  shares |-> IF existing = <<>> THEN 0 ELSE existing[1].shares,
                  price |-> s.price,
                  amount |-> IF existing = <<>> THEN 0 ELSE existing[1].amount,
                  targetAmount |-> allocations[<<s.name, a>>],
                  targetShares |-> Undefined]]
      LiquidationRows(a) ==
        LET mine == SelectSeq(holdings,
                      LAMBDA h : h.account = a
                                 /\ ~ \E i \in DOMAIN symbols :
                                        /\ symbols[i].name = h.symbol
                                        /\ symbols[i].targetPercent # Undefined)
        IN [i \in DOMAIN mine |->
              [symbol |-> mine[i].symbol, account |-> a,
               shares |-> mine[i].shares, price |-> mine[i].price,
               amount |-> mine[i].amount, targetAmount |-> 0,
               targetShares |-> Undefined]]
      RECURSIVE Rows(_)
      Rows(i) == IF i > Len(accts) THEN <<>>
                 ELSE TargetRows(accts[i]) \o LiquidationRows(accts[i]) \o Rows(i + 1)
  IN Rows(1)

---------------------------------------------------------------------------
\* Strategy A: consolidate

\* Variant of ConsolidateFill: the account's remaining capacity is not reduced by
\* what it was given, so later symbols fill the same account again.
RECURSIVE ConsolidateFillKeepsCapacity(_, _, _, _)
ConsolidateFillKeepsCapacity(symbolName, accountsByCapacity, remaining, st) ==
  IF accountsByCapacity = <<>> \/ remaining <= 0 THEN st
  ELSE LET account == Head(accountsByCapacity)
           canAllocate == Min(remaining, account.k)
       IN IF canAllocate > 0
          THEN ConsolidateFillKeepsCapacity(symbolName, Tail(accountsByCapacity),
                 remaining - canAllocate,
                 [allocations |-> [st.allocations EXCEPT
                                     ![<<symbolName, account.name>>] = canAllocate],
                  accountCapacity |-> st.accountCapacity])
          ELSE ConsolidateFillKeepsCapacity(symbolName, Tail(accountsByCapacity),
                 remaining, st)

\* Variant of ConsolidateFill: the walk stops after the first account it fills,
\* so need the largest account cannot take is dropped.
ConsolidateFillFirstOnly(symbolName, accountsByCapacity, remaining, st) ==
  IF accountsByCapacity = <<>> \/ remaining <= 0 THEN st
  ELSE LET account == Head(accountsByCapacity)
           canAllocate == Min(remaining, account.k)
       IN [allocations |-> [st.allocations EXCEPT
                              ![<<symbolName, account.name>>] = canAllocate],
           accountCapacity |-> [st.accountCapacity EXCEPT
                              ![account.name] = account.k - canAllocate]]

\* The for loop over accountsByCapacity for one symbol.
RECURSIVE ConsolidateFill(_, _, _, _)
ConsolidateFill(symbolName, accountsByCapacity, remaining, st) ==
  IF accountsByCapacity = <<>> \/ remaining <= 0 THEN st
  ELSE LET account == Head(accountsByCapacity)
           canAllocate == Min(remaining, account.k)
       IN IF canAllocate > 0
          THEN ConsolidateFill(symbolName, Tail(accountsByCapacity),
                 remaining - canAllocate,
                 [allocations |-> [st.allocations EXCEPT
                                     ![<<symbolName, account.name>>] = canAllocate],
                  accountCapacity |-> [st.accountCapacity EXCEPT
                                     ![account.name] = account.k - canAllocate]])
          ELSE ConsolidateFill(symbolName, Tail(accountsByCapacity), remaining, st)

\* Variant of symbolsWithTargets.forEach that walks the accounts from the
\* smallest remaining capacity to the largest.
RECURSIVE ConsolidateSymbolsSmallestFirst(_, _, _)
ConsolidateSymbolsSmallestFirst(symbolsWithTargets, allAccounts, st) ==
  IF symbolsWithTargets = <<>> THEN st
  ELSE LET s == Head(symbolsWithTargets)
           withCapacity == [i \in DOMAIN allAccounts |->
                              [name |-> allAccounts[i],
                               k |-> st.accountCapacity[allAccounts[i]]]]
           accountsByCapacity ==
             SortAsc(SelectSeq(withCapacity, LAMBDA a : a.k > 0))
       IN ConsolidateSymbolsSmallestFirst(Tail(symbolsWithTargets), allAccounts,
            ConsolidateFill(s.name, accountsByCapacity, s.k, st))

\* symbolsWithTargets.forEach: each symbol walks the accounts by remaining capacity.
RECURSIVE ConsolidateSymbols(_, _, _)
ConsolidateSymbols(symbolsWithTargets, allAccounts, st) ==
  IF symbolsWithTargets = <<>> THEN st
  ELSE LET s == Head(symbolsWithTargets)
           withCapacity == [i \in DOMAIN allAccounts |->
                              [name |-> allAccounts[i],
                               k |-> st.accountCapacity[allAccounts[i]]]]
           accountsByCapacity ==
             SortDesc(SelectSeq(withCapacity, LAMBDA a : a.k > 0))
       IN ConsolidateSymbols(Tail(symbolsWithTargets), allAccounts,
            ConsolidateFill(s.name, accountsByCapacity, s.k, st))

\* The allocations map calculateRebalance ends with.
ConsolidateAllocations(symbols, holdings) ==
  LET totalValue == TotalValue(holdings)
      allAccounts == AllAccounts(holdings)
      positive == SelectSeq(symbols,
                    LAMBDA s : s.targetPercent # Undefined /\ s.targetPercent > 0)
      symbolTargets == [i \in DOMAIN positive |->
                          [name |-> positive[i].name,
                           k |-> SymbolTarget(totalValue, positive[i].targetPercent)]]
      st0 == [allocations |-> NoAllocations(symbols, holdings),
              accountCapacity |->
                [a \in {holdings[i].account : i \in DOMAIN holdings} |->
                   AccountTotal(holdings, a)]]
  IN ConsolidateSymbols(SortDesc(symbolTargets), allAccounts, st0).allocations

calculateRebalance(symbols, holdings) ==
  BuildResult(symbols, holdings, ConsolidateAllocations(symbols, holdings))

---------------------------------------------------------------------------
\* Strategy B: minimize trades

\* Math.abs(delta) < Math.max(symbolPrice, totalValue * 0.0002), compared exactly.
BelowNoiseThreshold(delta, symbolPrice, totalValue) ==
  Abs(delta) * 10000 < Max(symbolPrice * 10000, totalValue * 2)

\* The symbol's holdings with amount > 0, as {account, amount}, ascending by amount.
SymbolHoldings(holdings, symbolName) ==
  LET mine == SelectSeq(holdings, LAMBDA h : h.symbol = symbolName /\ h.amount > 0)
  IN SortAsc([i \in DOMAIN mine |->
                [account |-> mine[i].account, amount |-> mine[i].amount,
                 k |-> mine[i].amount]])

\* Variant of the sell loop that takes the whole remainder from the first
\* holding, without the cap at what the holding has.
RECURSIVE MinTradesSellUncapped(_, _, _, _)
MinTradesSellUncapped(symbolName, symbolHoldings, remaining, allocations) ==
  IF symbolHoldings = <<>> \/ remaining <= 0 THEN allocations
  ELSE LET holding == Head(symbolHoldings)
           toRemove == remaining
       IN MinTradesSellUncapped(symbolName, Tail(symbolHoldings), remaining - toRemove,
            [allocations EXCEPT ![<<symbolName, holding.account>>] =
                                   holding.amount - toRemove])

\* delta < 0: remove |delta| from the symbol's holdings, smallest first.
RECURSIVE MinTradesSell(_, _, _, _)
MinTradesSell(symbolName, symbolHoldings, remaining, allocations) ==
  IF symbolHoldings = <<>> \/ remaining <= 0 THEN allocations
  ELSE LET holding == Head(symbolHoldings)
           toRemove == Min(remaining, holding.amount)
       IN MinTradesSell(symbolName, Tail(symbolHoldings), remaining - toRemove,
            [allocations EXCEPT ![<<symbolName, holding.account>>] =
                                   holding.amount - toRemove])

\* delta > 0, first loop: add to the accounts already holding the symbol,
\* largest holding first.  Returns the allocations and what remains to place.
RECURSIVE MinTradesBuyExisting(_, _, _, _, _)
MinTradesBuyExisting(holdings, symbolName, sortedHoldings, remaining, allocations) ==
  IF sortedHoldings = <<>> \/ remaining <= 0
  THEN [allocations |-> allocations, remaining |-> remaining]
  ELSE LET holding == Head(sortedHoldings)
           availableCapacity == AccountTotal(holdings, holding.account)
                                  - AccountUsed(allocations, holding.account)
           canAdd == Min(remaining, availableCapacity)
       IN IF availableCapacity > Dollar
          THEN MinTradesBuyExisting(holdings, symbolName, Tail(sortedHoldings),
                 remaining - canAdd,
                 [allocations EXCEPT ![<<symbolName, holding.account>>] =
                                        holding.amount + canAdd])
          ELSE MinTradesBuyExisting(holdings, symbolName, Tail(sortedHoldings),
                 remaining, allocations)

\* Variant of the list of accounts with capacity that keeps the largest only.
AccountsWithCapacityLargestOnly(holdings, allocations) ==
  LET allAccounts == AllAccounts(holdings)
      caps == [i \in DOMAIN allAccounts |->
                 [name |-> allAccounts[i],
                  k |-> AccountTotal(holdings, allAccounts[i])
                          - AccountUsed(allocations, allAccounts[i])]]
      sorted == SortDesc(SelectSeq(caps, LAMBDA a : a.k > Dollar))
  IN IF sorted = <<>> THEN sorted ELSE <<Head(sorted)>>

\* allAccounts mapped to {name, capacity}, those with capacity > 1, largest first.
AccountsWithCapacity(holdings, allocations) ==
  LET allAccounts == AllAccounts(holdings)
      caps == [i \in DOMAIN allAccounts |->
                 [name |-> allAccounts[i],
                  k |-> AccountTotal(holdings, allAccounts[i])
                          - AccountUsed(allocations, allAccounts[i])]]
  IN SortDesc(SelectSeq(caps, LAMBDA a : a.k > Dollar))

\* Variant of MinTradesSpill: an account is given its whole available capacity,
\* not the smaller of that and what remains to place.
RECURSIVE MinTradesSpillFillsAccount(_, _, _, _, _)
MinTradesSpillFillsAccount(holdings, symbolName, accountsWithCapacity, remaining, allocations) ==
  IF accountsWithCapacity = <<>> \/ remaining <= 0 THEN allocations
  ELSE LET name == Head(accountsWithCapacity).name
           currentAmount == allocations[<<symbolName, name>>]
           availableCapacity == AccountTotal(holdings, name)
                                  - AccountUsed(allocations, name)
           canAdd == availableCapacity
       IN IF availableCapacity > Dollar
          THEN MinTradesSpillFillsAccount(holdings, symbolName,
                 Tail(accountsWithCapacity), remaining - canAdd,
                 [allocations EXCEPT ![<<symbolName, name>>] = currentAmount + canAdd])
          ELSE MinTradesSpillFillsAccount(holdings, symbolName,
                 Tail(accountsWithCapacity), remaining, allocations)

\* delta > 0, second loop: spill what remains into the accounts with capacity.
RECURSIVE MinTradesSpill(_, _, _, _, _)
MinTradesSpill(holdings, symbolName, accountsWithCapacity, remaining, allocations) ==
  IF accountsWithCapacity = <<>> \/ remaining <= 0 THEN allocations
  ELSE LET name == Head(accountsWithCapacity).name
           currentAmount == allocations[<<symbolName, name>>]
           availableCapacity == AccountTotal(holdings, name)
                                  - AccountUsed(allocations, name)
           canAdd == Min(remaining, availableCapacity)
       IN IF availableCapacity > Dollar
          THEN MinTradesSpill(holdings, symbolName, Tail(accountsWithCapacity),
                 remaining - canAdd,
                 [allocations EXCEPT ![<<symbolName, name>>] = currentAmount + canAdd])
          ELSE MinTradesSpill(holdings, symbolName, Tail(accountsWithCapacity),
                 remaining, allocations)

\* Variant of the body of symbolDeltas.forEach whose buy branch goes straight
\* to the accounts with the most capacity, holders of the symbol or not.
MinTradesSymbolSpillsFirst(symbols, holdings, symbolName, targetAmount, allocations) ==
  LET symbolHoldings == SymbolHoldings(holdings, symbolName)
      currentTotal == SeqSum([i \in DOMAIN symbolHoldings |-> symbolHoldings[i].amount])
      delta == targetAmount - currentTotal
      priced == SelectSeq(symbols, LAMBDA s : s.name = symbolName)
      symbolPrice == IF priced = <<>> THEN Dollar ELSE priced[Len(priced)].price
  IN IF BelowNoiseThreshold(delta, symbolPrice, TotalValue(holdings))
     THEN allocations
     ELSE IF delta < 0
     THEN MinTradesSell(symbolName, symbolHoldings, Abs(delta), allocations)
     ELSE MinTradesSpill(holdings, symbolName,
            AccountsWithCapacity(holdings, allocations), delta, allocations)

\* The body of symbolDeltas.forEach for one symbol.
MinTradesSymbol(symbols, holdings, symbolName, targetAmount, allocations) ==
  LET symbolHoldings == SymbolHoldings(holdings, symbolName)
      currentTotal == SeqSum([i \in DOMAIN symbolHoldings |-> symbolHoldings[i].amount])
      delta == targetAmount - currentTotal
      priced == SelectSeq(symbols, LAMBDA s : s.name = symbolName)
      symbolPrice == IF priced = <<>> THEN Dollar ELSE priced[Len(priced)].price
  IN IF BelowNoiseThreshold(delta, symbolPrice, TotalValue(holdings))
     THEN allocations
     ELSE IF delta < 0
     THEN MinTradesSell(symbolName, symbolHoldings, Abs(delta), allocations)
     ELSE LET first == MinTradesBuyExisting(holdings, symbolName,
                         SortDesc(symbolHoldings), delta, allocations)
          IN IF first.remaining > Dollar
             THEN MinTradesSpill(holdings, symbolName,
                    AccountsWithCapacity(holdings, first.allocations),
                    first.remaining, first.allocations)
             ELSE first.allocations

RECURSIVE MinTradesSymbols(_, _, _, _)
MinTradesSymbols(symbols, holdings, symbolDeltas, allocations) ==
  IF symbolDeltas = <<>> THEN allocations
  ELSE MinTradesSymbols(symbols, holdings, Tail(symbolDeltas),
         MinTradesSymbol(symbols, holdings, Head(symbolDeltas).symbolName,
                         Head(symbolDeltas).targetAmount, allocations))

\* The per-account reconciliation for one account: spread the account's delta
\* over its positive allocations in proportion to each, clamped at 0.
ReconcileAccount(holdings, account, allocations) ==
  LET targetTotal == AccountTotal(holdings, account)
      currentTotal == AccountUsed(allocations, account)
      delta == targetTotal - currentTotal
      accountSymbols == {p \in DOMAIN allocations : p[2] = account /\ allocations[p] > 0}
      accountSymbolTotal == currentTotal
  IN IF Abs(delta) < Dollar \/ accountSymbols = {} THEN allocations
     ELSE [p \in DOMAIN allocations |->
             IF p \in accountSymbols
             THEN Max(0, allocations[p]
                           + RoundDiv(delta * allocations[p], accountSymbolTotal))
             ELSE allocations[p]]

RECURSIVE ReconcileAccounts(_, _, _)
ReconcileAccounts(holdings, accounts, allocations) ==
  IF accounts = <<>> THEN allocations
  ELSE ReconcileAccounts(holdings, Tail(accounts),
         ReconcileAccount(holdings, Head(accounts), allocations))

\* Variant of the new-symbol pass that gives the first account everything that
\* remains to place, without the cap at the account's capacity.
RECURSIVE NewSymbolFillUncapped(_, _, _, _)
NewSymbolFillUncapped(symbolName, accountsWithCapacity, remaining, allocations) ==
  IF accountsWithCapacity = <<>> \/ remaining <= 0 THEN allocations
  ELSE LET a == Head(accountsWithCapacity)
           canAllocate == remaining
       IN NewSymbolFillUncapped(symbolName, Tail(accountsWithCapacity),
            remaining - canAllocate,
            [allocations EXCEPT ![<<symbolName, a.name>>] = canAllocate])

\* The new-symbol pass for one symbol: walk the accounts by remaining capacity.
RECURSIVE NewSymbolFill(_, _, _, _)
NewSymbolFill(symbolName, accountsWithCapacity, remaining, allocations) ==
  IF accountsWithCapacity = <<>> \/ remaining <= 0 THEN allocations
  ELSE LET a == Head(accountsWithCapacity)
           canAllocate == Min(remaining, a.k)
       IN NewSymbolFill(symbolName, Tail(accountsWithCapacity),
            remaining - canAllocate,
            [allocations EXCEPT ![<<symbolName, a.name>>] = canAllocate])

RECURSIVE NewSymbols(_, _, _)
NewSymbols(holdings, symbolTargets, allocations) ==
  IF symbolTargets = <<>> THEN allocations
  ELSE LET t == Head(symbolTargets)
       IN NewSymbols(holdings, Tail(symbolTargets),
            IF SymbolAllocated(allocations, t.symbolName) < Dollar
            THEN NewSymbolFill(t.symbolName,
                   AccountsWithCapacity(holdings, allocations),
                   t.targetAmount, allocations)
            ELSE allocations)

\* symbolTargets as {symbolName, targetAmount, delta} in symbol order.
MinTradesTargets(symbols, holdings) ==
  LET totalValue == TotalValue(holdings)
      defined == SelectSeq(symbols, LAMBDA s : s.targetPercent # Undefined)
  IN [i \in DOMAIN defined |->
        LET targetAmount == SymbolTarget(totalValue, defined[i].targetPercent)
            mine == SelectSeq(holdings, LAMBDA h : h.symbol = defined[i].name)
            currentTotal == SeqSum([j \in DOMAIN mine |-> mine[j].amount])
        IN [symbolName |-> defined[i].name, targetAmount |-> targetAmount,
            k |-> targetAmount - currentTotal]]

\* allocations start at the current amount of every holding with a defined target.
MinTradesInitial(symbols, holdings) ==
  [p \in DOMAIN NoAllocations(symbols, holdings) |->
     IF \E i \in DOMAIN symbols :
          symbols[i].name = p[1] /\ symbols[i].targetPercent # Undefined
     THEN SeqSum([i \in DOMAIN holdings |->
                    IF holdings[i].symbol = p[1] /\ holdings[i].account = p[2]
                    THEN holdings[i].amount ELSE 0])
     ELSE 0]

\* The allocations map calculateRebalanceMinTrades ends with.
MinTradesAllocations(symbols, holdings) ==
  LET symbolTargets == MinTradesTargets(symbols, holdings)
      afterSymbols == MinTradesSymbols(symbols, holdings, SortAsc(symbolTargets),
                        MinTradesInitial(symbols, holdings))
      afterAccounts == ReconcileAccounts(holdings, AllAccounts(holdings), afterSymbols)
  IN NewSymbols(holdings, symbolTargets, afterAccounts)

calculateRebalanceMinTrades(symbols, holdings) ==
  BuildResult(symbols, holdings, MinTradesAllocations(symbols, holdings))

---------------------------------------------------------------------------
\* Whole-share converter

\* The ideal share count of a holding as a fraction num / den:
\* h.targetAmount / price when targetAmount is set, else h.shares.
IdealNum(h) == IF h.targetAmount # Undefined THEN h.targetAmount ELSE h.shares

IdealDen(h, price) == IF h.targetAmount # Undefined THEN price ELSE ShareUnit

\* The symbols of the holdings in order of first appearance (the keys of bySymbol).
RECURSIVE SymbolOrder(_)
SymbolOrder(holdings) ==
  IF holdings = <<>> THEN <<>>
  ELSE LET front == SymbolOrder(SubSeq(holdings, 1, Len(holdings) - 1))
           s == holdings[Len(holdings)].symbol
       IN IF \E i \in DOMAIN front : front[i] = s THEN front ELSE Append(front, s)

\* Variant of the rounding that floors the group's total instead of rounding it.
RoundGroupFloorsTotal(group) ==
  LET price == group[1].price
      common == price * ShareUnit
      ideals == [i \in DOMAIN group |->
                   LET num == IdealNum(group[i])
                       den == IdealDen(group[i], price)
                   IN [holding |-> group[i],
                       scaled |-> num * (common \div den),
                       floored |-> num \div den,
                       k |-> (num % den) * (common \div den)]]
      totalIdeal == SeqSum([i \in DOMAIN ideals |-> ideals[i].scaled])
      totalFloored == SeqSum([i \in DOMAIN ideals |-> ideals[i].floored])
      extraShares == (totalIdeal \div common) - totalFloored
      sorted == SortDesc(ideals)
  IN [i \in DOMAIN sorted |->
        LET targetShares == sorted[i].floored + (IF i <= extraShares THEN 1 ELSE 0)
        IN [row |-> [sorted[i].holding EXCEPT !.targetShares = targetShares,
                                              !.targetAmount = targetShares * price],
            floor |-> sorted[i].floored]]

\* Variant of the rounding that sets targetShares but keeps the row's dollar
\* target as it came in.
RoundGroupKeepsAmount(group) ==
  LET price == group[1].price
      common == price * ShareUnit
      ideals == [i \in DOMAIN group |->
                   LET num == IdealNum(group[i])
                       den == IdealDen(group[i], price)
                   IN [holding |-> group[i],
                       scaled |-> num * (common \div den),
                       floored |-> num \div den,
                       k |-> (num % den) * (common \div den)]]
      totalIdeal == SeqSum([i \in DOMAIN ideals |-> ideals[i].scaled])
      totalFloored == SeqSum([i \in DOMAIN ideals |-> ideals[i].floored])
      extraShares == RoundDiv(totalIdeal, common) - totalFloored
      sorted == SortDesc(ideals)
  IN [i \in DOMAIN sorted |->
        LET targetShares == sorted[i].floored + (IF i <= extraShares THEN 1 ELSE 0)
        IN [row |-> [sorted[i].holding EXCEPT !.targetShares = targetShares],
            floor |-> sorted[i].floored]]

\* Largest-remainder rounding of one symbol's group: floor every ideal, then give
\* one more share to the extraShares holdings with the largest remainders.
\* Returns the rows in sorted order, each with its floor of the ideal.
RoundGroup(group) ==
  LET price == group[1].price
      common == price * ShareUnit
      ideals == [i \in DOMAIN group |->
                   LET num == IdealNum(group[i])
                       den == IdealDen(group[i], price)
                   IN [holding |-> group[i],
                       scaled |-> num * (common \div den),
                       floored |-> num \div den,
                       k |-> (num % den) * (common \div den)]]
      totalIdeal == SeqSum([i \in DOMAIN ideals |-> ideals[i].scaled])
      totalFloored == SeqSum([i \in DOMAIN ideals |-> ideals[i].floored])
      extraShares == RoundDiv(totalIdeal, common) - totalFloored
      sorted == SortDesc(ideals)
  IN [i \in DOMAIN sorted |->
        LET targetShares == sorted[i].floored + (IF i <= extraShares THEN 1 ELSE 0)
        IN [row |-> [sorted[i].holding EXCEPT !.targetShares = targetShares,
                                              !.targetAmount = targetShares * price],
            floor |-> sorted[i].floored]]

\* The first half of convertToWholeShares: result and floorOfIdeal before the
\* budget repair.
RoundShares(holdings) ==
  LET order == SymbolOrder(holdings)
      RECURSIVE Groups(_)
      Groups(i) ==
        IF i > Len(order) THEN <<>>
        ELSE RoundGroup(SelectSeq(holdings, LAMBDA h : h.symbol = order[i]))
               \o Groups(i + 1)
      all == Groups(1)
  IN [result |-> [i \in DOMAIN all |-> all[i].row],
      floorOfIdeal |-> [i \in DOMAIN all |-> all[i].floor]]

\* accountPreRounding.get(account) || 0
AccountPreRounding(holdings, account) ==
  SeqSum([i \in DOMAIN holdings |->
            IF holdings[i].account # account THEN 0
            ELSE IF holdings[i].targetAmount # Undefined
                 THEN holdings[i].targetAmount ELSE holdings[i].amount])

\* accountTarget.get(account) || 0: the account's total at whole shares.
AccountTarget(res, account) ==
  SeqSum([i \in DOMAIN res |->
            IF res[i].account # account THEN 0
            ELSE IF res[i].targetShares # Undefined
                 THEN res[i].targetShares * res[i].price
                 ELSE (res[i].shares * res[i].price) \div ShareUnit])

\* Variant of the search for the holding to reduce that looks at the price
\* alone: the cheapest holding with shares left, rounded up or not.
RECURSIVE BestToReduceCheapest(_, _, _, _, _, _)
BestToReduceCheapest(res, floors, account, i, bestIdx, bestWasRoundedUp) ==
  IF i > Len(res) THEN bestIdx
  ELSE LET h == res[i]
       IN IF h.account # account \/ h.targetShares = Undefined \/ h.targetShares <= 0
          THEN BestToReduceCheapest(res, floors, account, i + 1, bestIdx, bestWasRoundedUp)
          ELSE IF bestIdx = 0 \/ h.price < res[bestIdx].price
          THEN BestToReduceCheapest(res, floors, account, i + 1, i, bestWasRoundedUp)
          ELSE BestToReduceCheapest(res, floors, account, i + 1, bestIdx, bestWasRoundedUp)

\* The scan for the best holding to reduce: bestIdx after rows i..Len(res),
\* 0 when no row of the account has targetShares > 0.
RECURSIVE BestToReduce(_, _, _, _, _, _)
BestToReduce(res, floors, account, i, bestIdx, bestWasRoundedUp) ==
  IF i > Len(res) THEN bestIdx
  ELSE LET h == res[i]
           wasRoundedUp == h.targetShares > floors[i]
       IN IF h.account # account \/ h.targetShares = Undefined \/ h.targetShares <= 0
          THEN BestToReduce(res, floors, account, i + 1, bestIdx, bestWasRoundedUp)
          ELSE IF wasRoundedUp /\ ~bestWasRoundedUp
          THEN BestToReduce(res, floors, account, i + 1, i, TRUE)
          ELSE IF wasRoundedUp = bestWasRoundedUp
                  /\ (bestIdx = 0 \/ h.price < res[bestIdx].price)
          THEN BestToReduce(res, floors, account, i + 1, i, bestWasRoundedUp)
          ELSE BestToReduce(res, floors, account, i + 1, bestIdx, bestWasRoundedUp)

\* Variant of the repair condition that repairs every account over its budget,
\* whether or not its pre-rounding total respected the budget.
NeedsRepairAnyAccount(holdings, res, account) ==
  AccountTarget(res, account) > AccountTotal(holdings, account) + Cent

\* Variant of the repair condition that tolerates a dollar over budget.
NeedsRepairLoose(holdings, res, account) ==
  /\ ~(AccountPreRounding(holdings, account) > AccountTotal(holdings, account) + Cent)
  /\ AccountTarget(res, account) > AccountTotal(holdings, account) + Dollar

\* Variant of the repair condition without the strict excess: an account
\* exactly at its budget is repaired too.
NeedsRepairAtBudget(holdings, res, account) ==
  /\ ~(AccountPreRounding(holdings, account) > AccountTotal(holdings, account) + Cent)
  /\ AccountTarget(res, account) >= AccountTotal(holdings, account)

\* Whether the repair pass acts on the account: its pre-rounding total respected
\* the budget and its whole-share total exceeds it.
NeedsRepair(holdings, res, account) ==
  /\ ~(AccountPreRounding(holdings, account) > AccountTotal(holdings, account) + Cent)
  /\ AccountTarget(res, account) > AccountTotal(holdings, account) + Cent

\* The body of the for loop over accountBudget for one account.
RepairAccount(holdings, res, floors, account) ==
  IF ~NeedsRepair(holdings, res, account) THEN res
  ELSE LET bestIdx == BestToReduce(res, floors, account, 1, 0, FALSE)
       IN IF bestIdx = 0 THEN res
          ELSE [res EXCEPT ![bestIdx].targetShares = @ - 1,
                           ![bestIdx].targetAmount =
                              (res[bestIdx].targetShares - 1) * res[bestIdx].price]

\* One iteration of while (changed): every account of accountBudget in turn.
RepairPass(holdings, res, floors) ==
  LET accounts == AllAccounts(holdings)
      RECURSIVE Pass(_, _)
      Pass(i, r) == IF i > Len(accounts) THEN r
                    ELSE Pass(i + 1, RepairAccount(holdings, r, floors, accounts[i]))
  IN Pass(1, res)

\* The whole repair loop, to its fixed point.
RECURSIVE RepairLoop(_, _, _)
RepairLoop(holdings, res, floors) ==
  LET next == RepairPass(holdings, res, floors)
  IN IF next = res THEN res ELSE RepairLoop(holdings, next, floors)

convertToWholeShares(holdings) ==
  LET r == RoundShares(holdings)
  IN RepairLoop(holdings, r.result, r.floorOfIdeal)

---------------------------------------------------------------------------
\* Trade generator

\* Math.round(holding.targetShares - holding.shares)
DeltaShares(h) == RoundDiv(h.targetShares * ShareUnit - h.shares, ShareUnit)

\* Math.round(absShares * holding.price * 100) / 100
TradeAmount(absShares, price) == RoundDiv(absShares * price, Cent) * Cent

\* Variant of the trade generator that tests targetShares for truthiness, so
\* that a target of 0 shares is skipped like a missing one.
RECURSIVE generateTradesSkipsZero(_)
generateTradesSkipsZero(holdings) ==
  IF holdings = <<>> THEN <<>>
  ELSE LET holding == Head(holdings)
           rest == generateTradesSkipsZero(Tail(holdings))
       IN IF holding.targetShares = Undefined \/ holding.targetShares = 0
             \/ DeltaShares(holding) = 0
          THEN rest
          ELSE <<[account |-> holding.account, symbol |-> holding.symbol,
                  type |-> IF DeltaShares(holding) > 0 THEN "buy" ELSE "sell",
                  shares |-> Abs(DeltaShares(holding)),
                  amount |-> TradeAmount(Abs(DeltaShares(holding)), holding.price)]>>
               \o rest

RECURSIVE generateTrades(_)
generateTrades(holdings) ==
  IF holdings = <<>> THEN <<>>
  ELSE LET holding == Head(holdings)
           rest == generateTrades(Tail(holdings))
       IN IF holding.targetShares = Undefined \/ DeltaShares(holding) = 0 THEN rest
          ELSE <<[account |-> holding.account, symbol |-> holding.symbol,
                  type |-> IF DeltaShares(holding) > 0 THEN "buy" ELSE "sell",
                  shares |-> Abs(DeltaShares(holding)),
                  amount |-> TradeAmount(Abs(DeltaShares(holding)), holding.price)]>>
               \o rest

---------------------------------------------------------------------------
\* The pipeline as a state machine: raw input -> strategy -> whole-share
\* converter (rounding, then one repair iteration per step) -> trade generator.

VARIABLES
  symbols,      \* Symbol[]: [name, price, targetPercent]
  holdings,     \* Holding[] given to the strategy
  strategy,     \* "consolidate" | "min_trades" | "none" (not chosen, or no strategy ran)
  pc,           \* "input" | "allocated" | "repairing" | "converted" | "traded" | "tools"
  allocated,    \* Holding[] given to convertToWholeShares
  result,       \* convertToWholeShares' result array
  floorOfIdeal, \* convertToWholeShares' floorOfIdeal array
  rounded,      \* history: result as the per-symbol rounding left it
  trades,       \* Trade[]
  stored,       \* storage: the portfolio kept under 'portfolio.csv', or NoPortfolio
  call,         \* history: the targets argument of the last set_targets call
  reply,        \* what the last set_targets call returned
  writes,       \* history: number of storage.write calls made so far
  messageQueue,       \* bridge: messages sent while nobody was waiting
  resolveUserMessage, \* bridge: the waiter whose promise a send resolves, or NoWaiter
  waiters,      \* history: per waitForUserMessage call, what its promise resolved with
  sent,         \* history: the texts passed to sendUserMessage, in call order
  tradesCsv,    \* storage: the content kept under 'trades.csv', or NoFile
  inFlight      \* storage: the adapter.write calls issued and not yet completed

engineVars == <<symbols, holdings, strategy, pc, allocated, result, floorOfIdeal,
                rounded, trades>>

toolVars == <<stored, call, reply, writes>>

uiVars == <<messageQueue, resolveUserMessage, waiters, sent, tradesCsv, inFlight>>

vars == <<symbols, holdings, strategy, pc, allocated, result, floorOfIdeal,
          rounded, trades, stored, call, reply, writes,
          messageQueue, resolveUserMessage, waiters, sent, tradesCsv, inFlight>>

\* resolveUserMessage = null
NoWaiter == 0

\* A promise of waitForUserMessage that has not resolved; a resolved one is <<text>>.
Pending == <<>>

\* storage has nothing under 'trades.csv'.
NoFile == <<"no file">>

\* The chat bridge and the trades file before anything has used them.
UiIdle ==
  /\ messageQueue = <<>>
  /\ resolveUserMessage = NoWaiter
  /\ waiters = <<>>
  /\ sent = <<>>
  /\ tradesCsv = NoFile
  /\ inFlight = {}

\* A targets map without entries: the portfolio file has no #targets section.
NoTargets == [x \in {} |-> 0]

\* storage.read('portfolio.csv') returning null: no portfolio is stored.
NoPortfolio == [exists |-> FALSE, holdings |-> <<>>, targets |-> NoTargets]

\* No set_targets call made yet.
NoCall == [made |-> FALSE, targets |-> NoTargets]

\* The chat tools at rest: nothing stored, nothing called.
ToolsIdle ==
  /\ stored = NoPortfolio
  /\ call = NoCall
  /\ reply = ""
  /\ writes = 0

\* Bounds of the inputs.
MaxShares == 2

SymbolNames == <<"A", "B", "C">>

AccountNames == <<"X", "Y">>

\* The price of each symbol of SymbolNames, in mills.
SymbolPrices == <<2 * Dollar, 3 * Dollar, Dollar>>

\* Target percentages drawn for the symbols.
Percents == {Undefined, 0, 40, 60}

\* Current share counts, in 1/ShareUnit shares: none, whole shares up to
\* MaxShares, and a fractional half share.
ShareCounts == {0, 1} \cup {n * ShareUnit : n \in 1..MaxShares}

\* The (account, symbol) positions a portfolio may hold, in file order.
Positions == << <<"X", "A">>, <<"X", "B">>, <<"Y", "A">>, <<"Y", "C">> >>

\* The symbols a symbol list may leave out although the portfolio holds them.
Unlisted == {"B"}

\* buildHoldings: one Holding per position with shares, amount = shares * price,
\* every holding of a symbol carrying the symbol's price.
BuildHoldings(syms, shares) ==
  LET all == [i \in DOMAIN Positions |->
                LET j == CHOOSE n \in DOMAIN SymbolNames :
                           SymbolNames[n] = Positions[i][2]
                IN [account |-> Positions[i][1], symbol |-> Positions[i][2],
                    shares |-> shares[i], price |-> SymbolPrices[j],
                    amount |-> (shares[i] * SymbolPrices[j]) \div ShareUnit,
                    targetAmount |-> Undefined, targetShares |-> Undefined]]
  IN SelectSeq(all, LAMBDA h : h.shares > 0)

Init ==
  /\ \E percents \in [DOMAIN SymbolNames -> Percents], omitted \in SUBSET Unlisted :
       symbols = SelectSeq([i \in DOMAIN SymbolNames |->
                              [name |-> SymbolNames[i], price |-> SymbolPrices[i],
                               targetPercent |-> percents[i]]],
                           LAMBDA s : s.name \notin omitted)
  /\ \E shares \in [DOMAIN Positions -> ShareCounts] :
       holdings = BuildHoldings(symbols, shares)
  /\ strategy = "none"
  /\ pc = "input"
  /\ allocated = <<>>
  /\ result = <<>>
  /\ floorOfIdeal = <<>>
  /\ rounded = <<>>
  /\ trades = <<>>
  /\ ToolsIdle
  /\ UiIdle

\* The caller runs one of the two strategies on the input.
Allocate ==
  /\ pc = "input"
  /\ \E s \in {"consolidate", "min_trades"} :
       /\ strategy' = s
       /\ allocated' = IF s = "consolidate"
                       THEN calculateRebalance(symbols, holdings)
                       ELSE calculateRebalanceMinTrades(symbols, holdings)
  /\ pc' = "allocated"
  /\ UNCHANGED <<symbols, holdings, result, floorOfIdeal, rounded, trades>>
  /\ UNCHANGED toolVars
  /\ UNCHANGED uiVars

\* Variant of the rounding that writes targetShares and targetAmount into the
\* caller's rows instead of into copies of them.
RoundInPlace ==
  /\ pc = "allocated"
  /\ LET r == RoundShares(allocated)
     IN /\ result' = r.result
        /\ floorOfIdeal' = r.floorOfIdeal
        /\ rounded' = r.result
        /\ allocated' = [i \in DOMAIN allocated |->
                           LET j == CHOOSE k \in DOMAIN r.result :
                                      /\ r.result[k].symbol = allocated[i].symbol
                                      /\ r.result[k].account = allocated[i].account
                           IN r.result[j]]
  /\ pc' = "repairing"
  /\ UNCHANGED <<symbols, holdings, strategy, trades>>
  /\ UNCHANGED toolVars
  /\ UNCHANGED uiVars

\* convertToWholeShares up to the repair loop: the per-symbol rounding.
Round ==
  /\ pc = "allocated"
  /\ LET r == RoundShares(allocated)
     IN /\ result' = r.result
        /\ floorOfIdeal' = r.floorOfIdeal
        /\ rounded' = r.result
  /\ pc' = "repairing"
  /\ UNCHANGED <<symbols, holdings, strategy, allocated, trades>>
  /\ UNCHANGED toolVars
  /\ UNCHANGED uiVars

\* Variant of the repair that makes a single pass over the accounts and returns.
RepairSinglePass ==
  /\ pc = "repairing"
  /\ result' = RepairPass(allocated, result, floorOfIdeal)
  /\ pc' = "converted"
  /\ UNCHANGED <<symbols, holdings, strategy, allocated, floorOfIdeal, rounded, trades>>
  /\ UNCHANGED toolVars
  /\ UNCHANGED uiVars

\* Variant of the repair iteration that finds the holding to reduce, sets
\* changed and lowers targetAmount, but leaves targetShares as it was.
RepairLosesDecrement ==
  /\ pc = "repairing"
  /\ LET next == RepairPass(allocated, result, floorOfIdeal)
     IN /\ result' = [i \in DOMAIN result |->
                        [next[i] EXCEPT !.targetShares = result[i].targetShares]]
        /\ pc' = IF next = result THEN "converted" ELSE "repairing"
  /\ UNCHANGED <<symbols, holdings, strategy, allocated, floorOfIdeal, rounded, trades>>
  /\ UNCHANGED toolVars
  /\ UNCHANGED uiVars

\* One iteration of while (changed); the loop ends, and convertToWholeShares
\* returns, after the first iteration that changes nothing.
Repair ==
  /\ pc = "repairing"
  /\ result' = RepairPass(allocated, result, floorOfIdeal)
  /\ pc' = IF result' = result THEN "converted" ELSE "repairing"
  /\ UNCHANGED <<symbols, holdings, strategy, allocated, floorOfIdeal, rounded, trades>>
  /\ UNCHANGED toolVars
  /\ UNCHANGED uiVars

\* generateTrades on the converter's result.
Trade ==
  /\ pc = "converted"
  /\ trades' = generateTrades(result)
  /\ pc' = "traded"
  /\ UNCHANGED <<symbols, holdings, strategy, allocated, result, floorOfIdeal, rounded>>
  /\ UNCHANGED toolVars
  /\ UNCHANGED uiVars

Next == Allocate \/ Round \/ Repair \/ Trade

Spec == Init /\ [][Next]_vars

---------------------------------------------------------------------------
\* The converter on its own: convertToWholeShares and generateTrades applied to
\* any holdings list, whether or not a strategy produced it.

MaxTargetSteps == 4

\* Dollar targets drawn for a row: none, or a multiple of half a dollar.
TargetAmounts == {Undefined} \cup {n * (Dollar \div 2) : n \in 0..MaxTargetSteps}

\* The (account, symbol) rows a converter input may hold, in input order.
ConvertPositions == << <<"X", "A">>, <<"X", "B">>, <<"Y", "A">> >>

\* The converter's input: one Holding per position, amount = shares * price;
\* a position with no shares and no target is left out.
ConvertInput(shares, targets) ==
  LET all == [i \in DOMAIN ConvertPositions |->
                LET j == CHOOSE n \in DOMAIN SymbolNames :
                           SymbolNames[n] = ConvertPositions[i][2]
                IN [account |-> ConvertPositions[i][1],
                    symbol |-> ConvertPositions[i][2],
                    shares |-> shares[i], price |-> SymbolPrices[j],
                    amount |-> (shares[i] * SymbolPrices[j]) \div ShareUnit,
                    targetAmount |-> targets[i], targetShares |-> Undefined]]
  IN SelectSeq(all, LAMBDA h : h.shares > 0 \/ h.targetAmount # Undefined)

InitConvert ==
  /\ symbols = <<>>
  /\ holdings = <<>>
  /\ strategy = "none"
  /\ pc = "allocated"
  /\ \E shares \in [DOMAIN ConvertPositions -> ShareCounts],
        targets \in [DOMAIN ConvertPositions -> TargetAmounts] :
       allocated = ConvertInput(shares, targets)
  /\ result = <<>>
  /\ floorOfIdeal = <<>>
  /\ rounded = <<>>
  /\ trades = <<>>
  /\ ToolsIdle
  /\ UiIdle

NextConvert == Round \/ Repair \/ Trade

SpecConvert == InitConvert /\ [][NextConvert]_vars

---------------------------------------------------------------------------
\* The trade generator on its own: generateTrades applied to any holdings list,
\* with or without targetShares on a row.

MaxTargetShares == 3

\* targetShares drawn for a row: none, or a whole number of shares.
TargetShareCounts == {Undefined} \cup (0..MaxTargetShares)

\* The (account, symbol) rows of a trade generator input, in input order.
TradePositions == << <<"X", "A">>, <<"X", "B">>, <<"Y", "A">> >>

\* The price of each row of TradePositions, in mills; the second (1.004) is not a
\* whole number of cents.
TradePrices == <<2 * Dollar, Dollar + 4, 2 * Dollar>>

\* The generator's input: one Holding per position, amount = shares * price.
TradeInput(shares, targets) ==
  [i \in DOMAIN TradePositions |->
     [account |-> TradePositions[i][1], symbol |-> TradePositions[i][2],
      shares |-> shares[i], price |-> TradePrices[i],
      amount |-> (shares[i] * TradePrices[i]) \div ShareUnit,
      targetAmount |-> Undefined, targetShares |-> targets[i]]]

InitTrades ==
  /\ symbols = <<>>
  /\ holdings = <<>>
  /\ strategy = "none"
  /\ pc = "converted"
  /\ allocated = <<>>
  /\ \E shares \in [DOMAIN TradePositions -> ShareCounts],
        targets \in [DOMAIN TradePositions -> TargetShareCounts] :
       result = TradeInput(shares, targets)
  /\ floorOfIdeal = <<>>
  /\ rounded = <<>>
  /\ trades = <<>>
  /\ ToolsIdle
  /\ UiIdle

NextTrades == Trade

SpecTrades == InitTrades /\ [][NextTrades]_vars

---------------------------------------------------------------------------
\* The chat tool set_targets over the portfolio kept in storage.

\* The unit of the tool's percentages: tenths of a percent.
TenthsPerPercent == 10

\* The tool's tolerance on the sum of the percentages: 0.1, in tenths of a percent.
SumTolerance == 1

MaxWrites == 2

\* The percentages a call may give a symbol: 20, 30, 50, 50.1 and 50.2.
ToolPercents == {200, 300, 500, 501, 502}

\* The targets arguments of a call: a percentage for each symbol of any subset
\* of the symbols, the empty map included.
TargetMaps ==
  UNION {[S -> ToolPercents] : S \in SUBSET {SymbolNames[i] : i \in DOMAIN SymbolNames}}

\* Object.values(targets).reduce((a, b) => a + b, 0)
TargetSum(targets) ==
  LET RECURSIVE S(_)
      S(K) == IF K = {} THEN 0
              ELSE LET k == CHOOSE x \in K : TRUE IN targets[k] + S(K \ {k})
  IN S(DOMAIN targets)

\* Math.abs(sum - 100) > 0.1
SumRejected(targets) ==
  Abs(TargetSum(targets) - 100 * TenthsPerPercent) > SumTolerance

\* The #holdings rows of the stored portfolio: account, symbol, shares.
StoredHoldings == << <<"X", "A", 2>>, <<"Y", "C", 1>> >>

\* The portfolios storage may hold before the first call: none, or the holdings
\* with no targets or with targets that sum to 100.
StoredPortfolios ==
  {NoPortfolio}
    \cup {[exists |-> TRUE, holdings |-> StoredHoldings, targets |-> t] :
            t \in {NoTargets} \cup {m \in TargetMaps : TargetSum(m) = 100 * TenthsPerPercent}}

InitTools ==
  /\ symbols = <<>>
  /\ holdings = <<>>
  /\ strategy = "none"
  /\ pc = "tools"
  /\ allocated = <<>>
  /\ result = <<>>
  /\ floorOfIdeal = <<>>
  /\ rounded = <<>>
  /\ trades = <<>>
  /\ stored \in StoredPortfolios
  /\ call = NoCall
  /\ reply = ""
  /\ writes = 0
  /\ UiIdle

\* Variant of set_targets that loads the portfolio and saves the new targets
\* before it looks at their sum.
SetTargetsSavesFirst ==
  /\ pc = "tools"
  /\ writes < MaxWrites
  /\ \E targets \in TargetMaps :
       /\ call' = [made |-> TRUE, targets |-> targets]
       /\ IF ~stored.exists
          THEN /\ reply' = "No portfolio loaded."
               /\ UNCHANGED <<stored, writes>>
          ELSE /\ stored' = [stored EXCEPT !.targets = targets]
               /\ writes' = writes + 1
               /\ reply' = IF SumRejected(targets) THEN "must sum to 100%"
                           ELSE "Targets updated"
  /\ UNCHANGED engineVars
  /\ UNCHANGED uiVars

\* set_targets.execute({ targets }): reject a sum off 100, then load the
\* portfolio, and if there is one replace its targets and save it.
SetTargets ==
  /\ pc = "tools"
  /\ writes < MaxWrites
  /\ \E targets \in TargetMaps :
       /\ call' = [made |-> TRUE, targets |-> targets]
       /\ IF SumRejected(targets)
          THEN /\ reply' = "must sum to 100%"
               /\ UNCHANGED <<stored, writes>>
          ELSE IF ~stored.exists
          THEN /\ reply' = "No portfolio loaded."
               /\ UNCHANGED <<stored, writes>>
          ELSE /\ stored' = [stored EXCEPT !.targets = targets]
               /\ writes' = writes + 1
               /\ reply' = "Targets updated"
  /\ UNCHANGED engineVars
  /\ UNCHANGED uiVars

NextTools == SetTargets

SpecTools == InitTools /\ [][NextTools]_vars

---------------------------------------------------------------------------
\* Vocabulary of the properties

\* calculateTargetPercentSum(symbols)
calculateTargetPercentSum(syms) ==
  SeqSum([i \in DOMAIN syms |->
            IF syms[i].targetPercent = Undefined THEN 0 ELSE syms[i].targetPercent])

AccountsOf(hs) == {hs[i].account : i \in DOMAIN hs}

SymbolsOf(hs) == {hs[i].symbol : i \in DOMAIN hs}

\* Sum of targetAmount over the rows of an account.
AccountTargetAmount(rows, account) ==
  SeqSum([i \in DOMAIN rows |->
            IF rows[i].account = account THEN rows[i].targetAmount ELSE 0])

\* Sum of targetAmount over the rows of a symbol.
SymbolTargetAmount(rows, symbol) ==
  SeqSum([i \in DOMAIN rows |->
            IF rows[i].symbol = symbol THEN rows[i].targetAmount ELSE 0])

\* Sum of amount over the rows of a symbol.
SymbolAmount(rows, symbol) ==
  SeqSum([i \in DOMAIN rows |->
            IF rows[i].symbol = symbol THEN rows[i].amount ELSE 0])

Within(a, b, tolerance) == Abs(a - b) <= tolerance

\* Some row's target differs from what the account holds of the symbol today.
Moved(rows) == \E i \in DOMAIN rows : rows[i].targetAmount # rows[i].amount

---------------------------------------------------------------------------
\* C1. Consolidate keeps every account's total: when the target percentages sum
\* to 100, each account's targetAmounts add up to the amounts it held (to a cent).
C1_ConsolidateAccountConservation ==
  (pc = "allocated" /\ strategy = "consolidate"
     /\ calculateTargetPercentSum(symbols) = 100)
  => \A a \in AccountsOf(holdings) :
       Within(AccountTargetAmount(allocated, a), AccountTotal(holdings, a), Cent)

\* Reached: a two-account portfolio, percentages summing to 100, in which
\* consolidate moved money between symbols of both accounts.
C1_Witness ==
  /\ pc = "allocated" /\ strategy = "consolidate"
  /\ calculateTargetPercentSum(symbols) = 100
  /\ Cardinality({a \in AccountsOf(holdings) : AccountTotal(holdings, a) > 0}) = 2
  /\ \A a \in AccountsOf(holdings) :
       \E i \in DOMAIN allocated :
         allocated[i].account = a /\ allocated[i].targetAmount # allocated[i].amount

\* C3. Consolidate meets every symbol's target: when the target percentages sum
\* to 100, each symbol with targetPercent > 0 is allocated totalValue *
\* targetPercent / 100 across the accounts (to a cent).
C3_ConsolidateSymbolConservation ==
  (pc = "allocated" /\ strategy = "consolidate"
     /\ calculateTargetPercentSum(symbols) = 100)
  => \A i \in DOMAIN symbols :
       symbols[i].targetPercent > 0
       => Within(100 * SymbolTargetAmount(allocated, symbols[i].name),
                 TotalValue(holdings) * symbols[i].targetPercent, 100 * Cent)

\* Reached: a symbol with a positive target that consolidate spread over two
\* accounts, its total on target.
C3_Witness ==
  /\ pc = "allocated" /\ strategy = "consolidate"
  /\ calculateTargetPercentSum(symbols) = 100
  /\ \E i \in DOMAIN symbols :
       /\ symbols[i].targetPercent > 0
       /\ Cardinality({j \in DOMAIN allocated :
                         allocated[j].symbol = symbols[i].name
                         /\ allocated[j].targetAmount > 0}) = 2
       /\ SymbolAmount(holdings, symbols[i].name)
            # SymbolTargetAmount(allocated, symbols[i].name)

\* C2. Minimize-Trades keeps every account's total: when the target percentages
\* sum to 100, each account's targetAmounts add up to the amounts it held (to a
\* cent).
C2_MinTradesAccountConservation ==
  (pc = "allocated" /\ strategy = "min_trades"
     /\ calculateTargetPercentSum(symbols) = 100)
  => \A a \in AccountsOf(holdings) :
       Within(AccountTargetAmount(allocated, a), AccountTotal(holdings, a), Cent)

\* C4 as first stated.  Minimize-Trades meets every symbol's target: when the
\* target percentages sum to 100, each symbol with targetPercent > 0 is allocated
\* totalValue * targetPercent / 100 across the accounts (to a cent).
C4_MinTradesSymbolConservation ==
  (pc = "allocated" /\ strategy = "min_trades"
     /\ calculateTargetPercentSum(symbols) = 100)
  => \A i \in DOMAIN symbols :
       symbols[i].targetPercent > 0
       => Within(100 * SymbolTargetAmount(allocated, symbols[i].name),
                 TotalValue(holdings) * symbols[i].targetPercent, 100 * Cent)

RECURSIVE GCD(_, _)
GCD(a, b) == IF b = 0 THEN a ELSE GCD(b, a % b)

RECURSIVE SetGCD(_)
SetGCD(S) == IF S = {} THEN 0
             ELSE LET x == CHOOSE y \in S : TRUE IN GCD(x, SetGCD(S \ {x}))

\* No symbol with a defined target falls under the skip rule: its target is its
\* current total, or differs from it by at least a cent more than
\* max(price, totalValue * 0.0002).
NothingSkipped ==
  \A i \in DOMAIN symbols :
    symbols[i].targetPercent # Undefined
    => LET delta == SymbolTarget(TotalValue(holdings), symbols[i].targetPercent)
                      - SymbolAmount(holdings, symbols[i].name)
       IN delta = 0
          \/ ~BelowNoiseThreshold(Abs(delta) - Cent, symbols[i].price,
                                  TotalValue(holdings))

\* Every holding's amount and every symbol's target amount is a whole multiple of
\* one unit larger than a dollar, so no capacity and no demand of a dollar or
\* less (which the strategy leaves alone) can arise.
CoarseAmounts ==
  SetGCD({holdings[i].amount : i \in DOMAIN holdings}
         \cup {SymbolTarget(TotalValue(holdings), symbols[i].targetPercent) :
                 i \in {j \in DOMAIN symbols : symbols[j].targetPercent # Undefined}})
    >= Dollar + Cent

\* C4 as amended.  Minimize-Trades meets every symbol's target (to a cent) on the
\* inputs, with percentages summing to 100, that its thresholds leave alone:
\* no symbol is inside the noise threshold of the skip rule, and amounts and
\* targets are multiples of a unit larger than the one-dollar capacity cut-off.
C4_MinTradesSymbolConservationAmended ==
  (pc = "allocated" /\ strategy = "min_trades"
     /\ calculateTargetPercentSum(symbols) = 100
     /\ NothingSkipped /\ CoarseAmounts)
  => \A i \in DOMAIN symbols :
       symbols[i].targetPercent > 0
       => Within(100 * SymbolTargetAmount(allocated, symbols[i].name),
                 TotalValue(holdings) * symbols[i].targetPercent, 100 * Cent)

\* Reached: such an input in which one symbol was sold and another, held in no
\* account before, was bought into an account through the spill loop.
C4_Witness ==
  /\ pc = "allocated" /\ strategy = "min_trades"
  /\ calculateTargetPercentSum(symbols) = 100
  /\ NothingSkipped /\ CoarseAmounts
  /\ \E i, j \in DOMAIN symbols :
       /\ symbols[i].targetPercent > 0
       /\ SymbolAmount(holdings, symbols[i].name) = 0
       /\ SymbolTargetAmount(allocated, symbols[i].name) > 0
       /\ symbols[j].targetPercent # Undefined
       /\ 0 < SymbolTargetAmount(allocated, symbols[j].name)
       /\ SymbolTargetAmount(allocated, symbols[j].name)
            < SymbolAmount(holdings, symbols[j].name)

---------------------------------------------------------------------------
\* Vocabulary of the converter's properties

\* The account's total at the whole-share targets of the rows.
AccountShareValue(rows, account) ==
  SeqSum([i \in DOMAIN rows |->
            IF rows[i].account = account THEN rows[i].targetShares * rows[i].price
            ELSE 0])

\* Sum of targetShares over the rows of a symbol.
SymbolTargetShares(rows, symbol) ==
  SeqSum([i \in DOMAIN rows |->
            IF rows[i].symbol = symbol THEN rows[i].targetShares ELSE 0])

\* The rows whose targetShares the budget repair has reduced so far.
Reduced == {i \in DOMAIN result : result[i].targetShares < rounded[i].targetShares}

\* Sum of the amounts of an account's trades of one type.
TradeTotal(ts, account, type) ==
  SeqSum([i \in DOMAIN ts |->
            IF ts[i].account = account /\ ts[i].type = type THEN ts[i].amount ELSE 0])

\* Round-half-up of the sum of the ideal shares of a symbol's rows: targetAmount /
\* price where targetAmount is set, the current shares otherwise.
RoundedIdealTotal(rows, symbol) ==
  LET mine == SelectSeq(rows, LAMBDA h : h.symbol = symbol)
      price == mine[1].price
      scaled == SeqSum([i \in DOMAIN mine |->
                          IF mine[i].targetAmount # Undefined
                          THEN mine[i].targetAmount * ShareUnit
                          ELSE mine[i].shares * price])
  IN RoundDiv(scaled, price * ShareUnit)

\* The rows of a list with a given (symbol, account) key, shares, price and amount.
RowsLike(rows, h) ==
  {i \in DOMAIN rows : /\ rows[i].symbol = h.symbol /\ rows[i].account = h.account
                       /\ rows[i].shares = h.shares /\ rows[i].price = h.price
                       /\ rows[i].amount = h.amount}

---------------------------------------------------------------------------
\* C5. Pipeline budget: whichever strategy ran, and whatever the input, after
\* convertToWholeShares no account's whole-share total (sum of targetShares *
\* price) exceeds the total amount the account held in the input by more than a
\* cent.
C5_PipelineBudget ==
  (pc \in {"converted", "traded"} /\ strategy # "none")
  => \A a \in AccountsOf(holdings) :
       AccountShareValue(result, a) <= AccountTotal(holdings, a) + Cent

\* Reached: a converted pipeline run in which the per-symbol rounding had put an
\* account over its budget and the repair brought it back.
C5_Witness ==
  /\ pc = "converted" /\ strategy # "none"
  /\ \E a \in AccountsOf(holdings) :
       /\ AccountShareValue(rounded, a) > AccountTotal(holdings, a) + Cent
       /\ AccountShareValue(result, a) <= AccountTotal(holdings, a) + Cent
       /\ AccountShareValue(result, a) > 0

\* C6. Repair post-condition of the converter on any input: an account whose
\* pre-rounding target total (targetAmount, or amount where it is absent) is
\* within its original total plus a cent ends with a whole-share total within its
\* original total plus a cent, however many of its rows were rounded up.
C6_RepairPostCondition ==
  (pc \in {"converted", "traded"})
  => \A a \in AccountsOf(allocated) :
       AccountPreRounding(allocated, a) <= AccountTotal(allocated, a) + Cent
       => AccountShareValue(result, a) <= AccountTotal(allocated, a) + Cent

\* Reached: a converter run in which two rows of one account within budget were
\* rounded up and both had to be reduced to meet the budget.
C6_Witness ==
  /\ pc = "converted" /\ strategy = "none"
  /\ \E a \in AccountsOf(allocated) :
       /\ AccountPreRounding(allocated, a) <= AccountTotal(allocated, a) + Cent
       /\ AccountTotal(allocated, a) > 0
       /\ Cardinality({i \in Reduced : result[i].account = a}) >= 2
       /\ \A i \in Reduced : result[i].account = a => rounded[i].targetShares > floorOfIdeal[i]

\* C7. No money enters an account: whichever strategy ran, and whatever
\* non-negative shares the portfolio holds, the buy trades of an account never
\* add up to more than a cent above its sell trades.
C7_NoMoneyEntersAccount ==
  (pc = "traded" /\ strategy # "none")
  => \A a \in AccountsOf(holdings) :
       TradeTotal(trades, a, "buy") <= TradeTotal(trades, a, "sell") + Cent

\* C8. Non-negativity: no row a strategy returns has a negative targetAmount,
\* and from the per-symbol rounding on, through every repair iteration, every
\* row's targetShares is a non-negative whole number and its targetAmount is
\* non-negative.
C8_NonNegative ==
  /\ (pc # "input" /\ strategy # "none")
       => \A i \in DOMAIN allocated :
            allocated[i].targetAmount # Undefined /\ allocated[i].targetAmount >= 0
  /\ (pc \in {"repairing", "converted", "traded"})
       => \A i \in DOMAIN result :
            result[i].targetShares \in Nat /\ result[i].targetAmount >= 0

\* Reached: a converted Minimize-Trades run that sold part of a symbol held in
\* two accounts and in which the repair took a row's last share.
C8_Witness ==
  /\ pc = "converted" /\ strategy = "min_trades"
  /\ \E i \in Reduced : result[i].targetShares = 0
  /\ \E i, j \in DOMAIN allocated :
       /\ i # j /\ allocated[i].symbol = allocated[j].symbol
       /\ allocated[i].targetAmount < allocated[i].amount
       /\ allocated[j].amount > 0

\* C9. Output shape of the converter: one output row per input row, with the
\* same (symbol, account) key, shares, price and amount, in any order; every
\* output row has targetShares set and targetAmount = targetShares * price; an
\* empty input gives an empty output.
C9_ConverterShape ==
  (pc \in {"repairing", "converted", "traded"})
  => /\ Len(result) = Len(allocated)
     /\ \A i \in DOMAIN allocated :
          Cardinality(RowsLike(result, allocated[i]))
            = Cardinality(RowsLike(allocated, allocated[i]))
     /\ \A i \in DOMAIN result :
          /\ result[i].targetShares # Undefined
          /\ result[i].targetAmount = result[i].targetShares * result[i].price
     /\ (allocated = <<>> => result = <<>>)

\* Reached: a converter run on three rows that came back in another order, one
\* of them with a dollar target changed by the rounding and one reduced by the
\* repair.
C9_Witness ==
  /\ pc = "converted" /\ strategy = "none"
  /\ Len(allocated) = 3
  /\ \E i \in DOMAIN result : result[i].symbol # allocated[i].symbol
  /\ \E i, j \in DOMAIN result :
       /\ result[j].account = allocated[i].account
       /\ result[j].symbol = allocated[i].symbol
       /\ allocated[i].targetAmount # Undefined
       /\ result[j].targetAmount # allocated[i].targetAmount
  /\ Reduced # {}

\* C10 as stated. In the converter's output, every symbol's targetShares add
\* up to round-half-up of the sum of its rows' ideal shares.
C10_LargestRemainderTotal ==
  (pc \in {"converted", "traded"})
  => \A s \in SymbolsOf(allocated) :
       SymbolTargetShares(result, s) = RoundedIdealTotal(allocated, s)

\* C10 amended. The per-symbol rounding leaves every symbol's targetShares
\* adding up to round-half-up of the sum of its rows' ideal shares; the budget
\* repair only takes shares away, so in the output the sum is that value when no
\* row of the symbol was reduced and less when one was.
C10_LargestRemainderTotalAmended ==
  (pc \in {"repairing", "converted", "traded"})
  => \A s \in SymbolsOf(allocated) :
       /\ SymbolTargetShares(rounded, s) = RoundedIdealTotal(allocated, s)
       /\ SymbolTargetShares(result, s) <= RoundedIdealTotal(allocated, s)
       /\ (SymbolTargetShares(result, s) = RoundedIdealTotal(allocated, s))
            <=> ~(\E i \in Reduced : result[i].symbol = s)

\* Reached: a converter output with a symbol held in two accounts whose
\* fractional ideals earned one extra share between them, which the repair then
\* took back, next to a symbol the repair left alone.
C10_Witness ==
  /\ pc = "converted" /\ strategy = "none"
  /\ \E s, t \in SymbolsOf(allocated) :
       /\ s # t
       /\ Cardinality({i \in DOMAIN result : result[i].symbol = s}) = 2
       /\ SymbolTargetShares(rounded, s)
            = 1 + SeqSum([i \in DOMAIN rounded |->
                            IF rounded[i].symbol = s THEN floorOfIdeal[i] ELSE 0])
       /\ \A i \in DOMAIN allocated :
            allocated[i].symbol = s => allocated[i].targetAmount % allocated[i].price # 0
       /\ SymbolTargetShares(result, s) < SymbolTargetShares(rounded, s)
       /\ SymbolTargetShares(result, t) = SymbolTargetShares(rounded, t)
       /\ SymbolTargetShares(result, t) > 0

---------------------------------------------------------------------------
\* Whether the row's ideal share count is a whole number.
WholeIdeal(h) == IdealNum(h) % IdealDen(h, h.price) = 0

\* The row's ideal share count, for a row whose ideal is whole.
IdealShares(h) == IdealNum(h) \div IdealDen(h, h.price)

\* The rows of a list with the (symbol, account) key of h.
SameKey(rows, h) ==
  {i \in DOMAIN rows : rows[i].symbol = h.symbol /\ rows[i].account = h.account}

\* C11. Converter idempotence: when every input row's ideal share count is a
\* whole number, every row comes back with targetShares equal to its ideal; and
\* converting the converter's own output again returns the same targetShares
\* for every (symbol, account).
C11_ConverterIdempotent ==
  (pc \in {"converted", "traded"})
  => /\ (\A i \in DOMAIN allocated : WholeIdeal(allocated[i]))
          => \A i \in DOMAIN allocated : \A j \in SameKey(result, allocated[i]) :
               result[j].targetShares = IdealShares(allocated[i])
     /\ LET again == convertToWholeShares(result)
        IN /\ Len(again) = Len(result)
           /\ \A i \in DOMAIN result :
                /\ SameKey(again, result[i]) # {}
                /\ \A j \in SameKey(again, result[i]) :
                     again[j].targetShares = result[i].targetShares

\* Reached: a converter output for two rows of one account, one with a whole
\* ideal of one share or more, whose whole-share total is above the account's
\* original total, and which a second conversion nevertheless returns as it is.
C11_Witness ==
  /\ pc = "converted" /\ strategy = "none"
  /\ \A i \in DOMAIN allocated : WholeIdeal(allocated[i])
  /\ \E a \in AccountsOf(allocated) :
       /\ Cardinality({i \in DOMAIN allocated : allocated[i].account = a}) = 2
       /\ AccountShareValue(result, a) > AccountTotal(allocated, a) + Cent
  /\ \E i \in DOMAIN result : result[i].targetShares >= 1

---------------------------------------------------------------------------
\* Whether d is targetShares - shares rounded to the nearest whole number, a
\* half rounding up.
IsRoundedDelta(h, d) ==
  LET n == h.targetShares * ShareUnit - h.shares
  IN (2 * d - 1) * ShareUnit <= 2 * n /\ 2 * n < (2 * d + 1) * ShareUnit

\* The rows that call for a trade: targetShares set and a rounded share
\* difference other than 0.
CallsForTrade(h) == h.targetShares # Undefined /\ ~IsRoundedDelta(h, 0)

---------------------------------------------------------------------------
\* The symbols whose target is defined and lies within the noise threshold of
\* what the portfolio holds of them: |target - current| < max(price,
\* totalValue * 0.0002).
WithinNoise ==
  {i \in DOMAIN symbols :
     /\ symbols[i].targetPercent # Undefined
     /\ Abs(SymbolTarget(TotalValue(holdings), symbols[i].targetPercent)
              - SymbolAmount(holdings, symbols[i].name)) * 10000
          < Max(symbols[i].price * 10000, TotalValue(holdings) * 2)}

\* C13. Noise threshold: under Minimize-Trades every holding of a symbol whose
\* delta is below the threshold keeps targetAmount equal to its amount, and the
\* pipeline generates no trade in that symbol.
C13_NoiseThreshold ==
  (strategy = "min_trades")
  => \A i \in WithinNoise :
       /\ (pc # "input")
            => \A r \in DOMAIN allocated :
                 (allocated[r].symbol = symbols[i].name /\ allocated[r].shares > 0)
                 => allocated[r].targetAmount = allocated[r].amount
       /\ (pc = "traded")
            => \A t \in DOMAIN trades : trades[t].symbol # symbols[i].name

\* C14. Full liquidation: under Minimize-Trades every output row of a symbol
\* with targetPercent 0 has targetAmount 0, however small or large the symbol's
\* holdings are in the portfolio.
C14_FullLiquidation ==
  (strategy = "min_trades" /\ pc # "input")
  => \A i \in DOMAIN symbols : \A r \in DOMAIN allocated :
       (symbols[i].targetPercent = 0 /\ allocated[r].symbol = symbols[i].name)
       => allocated[r].targetAmount = 0

---------------------------------------------------------------------------
\* The names of the listed symbols with a defined targetPercent.
Targeted == {symbols[i].name : i \in {j \in DOMAIN symbols :
                                        symbols[j].targetPercent # Undefined}}

\* The input holdings whose symbol has no targetPercent or is not listed.
UntargetedHoldings == {i \in DOMAIN holdings : holdings[i].symbol \notin Targeted}

\* C15. Shape of a strategy's output, for both strategies: one row for each
\* (symbol with a defined targetPercent, account of the holdings) pair and one
\* row with targetAmount 0 for each input holding whose symbol has no
\* targetPercent or is not listed, and no other row; no (symbol, account) key
\* twice; every input holding's key in the output with its shares and amount;
\* empty holdings give an empty output.
C15_StrategyOutputShape ==
  (pc # "input" /\ strategy # "none")
  => /\ \A s \in Targeted : \A a \in AccountsOf(holdings) :
          Cardinality(SameKey(allocated, [symbol |-> s, account |-> a])) = 1
     /\ \A i \in UntargetedHoldings :
          /\ Cardinality(SameKey(allocated, holdings[i])) = 1
          /\ \A r \in SameKey(allocated, holdings[i]) : allocated[r].targetAmount = 0
     /\ Len(allocated) = Cardinality(Targeted) * Cardinality(AccountsOf(holdings))
                           + Cardinality(UntargetedHoldings)
     /\ \A i, j \in DOMAIN allocated :
          (allocated[i].symbol = allocated[j].symbol
             /\ allocated[i].account = allocated[j].account) => i = j
     /\ \A i \in DOMAIN holdings : \E r \in SameKey(allocated, holdings[i]) :
          /\ allocated[r].shares = holdings[i].shares
          /\ allocated[r].amount = holdings[i].amount
     /\ (holdings = <<>> => allocated = <<>>)

\* Reached: a strategy output for two accounts holding a symbol that is not
\* listed and a listed symbol without a target, with a targeted symbol given a
\* row in an account that does not hold it.
C15_Witness ==
  /\ pc = "allocated"
  /\ Cardinality(AccountsOf(holdings)) = 2
  /\ \E i, j \in UntargetedHoldings :
       /\ \A k \in DOMAIN symbols : symbols[k].name # holdings[i].symbol
       /\ \E k \in DOMAIN symbols : symbols[k].name = holdings[j].symbol
  /\ \E r \in DOMAIN allocated :
       allocated[r].shares = 0 /\ allocated[r].targetAmount > 0

---------------------------------------------------------------------------
\* C16. Strategy comparison: on any input, the pipeline run with
\* Minimize-Trades generates no more trades than the pipeline run with
\* consolidate on the same input.
C16_StrategyComparison ==
  (pc = "traded" /\ strategy = "min_trades")
  => Len(trades)
       <= Len(generateTrades(convertToWholeShares(calculateRebalance(symbols, holdings))))

---------------------------------------------------------------------------
\* C17. No caller-visible mutation: no step of a strategy, of the converter or
\* of the trade generator changes the symbols or holdings it was given; the
\* converter's rounding and its repair decrements leave the converter's input
\* rows as they are and write only to the rows of its result, and the trade
\* generator leaves the converter's result as it is.
C17_NoCallerVisibleMutation ==
  [][/\ symbols' = symbols
     /\ holdings' = holdings
     /\ (pc # "input" => allocated' = allocated)
     /\ (pc = "converted" => result' = result)]_vars

\* Reached: a pipeline run carried through to its trades, in which the repair
\* reduced a row of the result, while the strategy's rows still carry no
\* targetShares and the caller's holdings no targetAmount.
C17_Witness ==
  /\ pc = "traded" /\ strategy # "none"
  /\ Reduced # {}
  /\ trades # <<>>
  /\ \A i \in DOMAIN allocated : allocated[i].targetShares = Undefined
  /\ \A i \in DOMAIN holdings :
       holdings[i].targetAmount = Undefined /\ holdings[i].targetShares = Undefined

---------------------------------------------------------------------------
\* C18. Rejection by set_targets leaves the state as it was: a call whose
\* percentages are off 100 by more than the tool's tolerance returns the 'must
\* sum to 100%' message, writes nothing and leaves the stored portfolio and its
\* targets as they were; a call made while no portfolio is stored writes nothing
\* and leaves storage as it was, too.
C18_SetTargetsRejection ==
  [][(pc = "tools" /\ call'.made)
       => /\ (Abs(TargetSum(call'.targets) - 100 * TenthsPerPercent) > SumTolerance)
               => /\ reply' = "must sum to 100%"
                  /\ stored' = stored
                  /\ writes' = writes
          /\ (~stored.exists) => (stored' = stored /\ writes' = writes)]_vars

\* Reached: a call rejected for its sum, made after an accepted call had saved
\* targets; the stored portfolio still carries targets that sum to 100.
C18_Witness ==
  /\ pc = "tools" /\ call.made
  /\ Abs(TargetSum(call.targets) - 100 * TenthsPerPercent) > SumTolerance
  /\ call.targets # NoTargets
  /\ reply = "must sum to 100%"
  /\ writes = 1
  /\ stored.exists
  /\ Abs(TargetSum(stored.targets) - 100 * TenthsPerPercent) <= SumTolerance

---------------------------------------------------------------------------
\* Floor of the ideal share count of an input row.
IdealFloor(h) == IdealNum(h) \div IdealDen(h, h.price)

\* Whether the fractional remainder of g's ideal is above (Above), or equal to
\* (Same), that of h's ideal; the remainders are fractions over each row's own
\* denominator.
RemainderAbove(g, h) ==
  (IdealNum(g) % IdealDen(g, g.price)) * IdealDen(h, h.price)
    > (IdealNum(h) % IdealDen(h, h.price)) * IdealDen(g, g.price)

RemainderSame(g, h) ==
  (IdealNum(g) % IdealDen(g, g.price)) * IdealDen(h, h.price)
    = (IdealNum(h) % IdealDen(h, h.price)) * IdealDen(g, g.price)

\* targetShares of the input row i as the per-symbol rounding left it.
RoundedShares(i) ==
  LET r == CHOOSE k \in DOMAIN rounded :
             /\ rounded[k].symbol = allocated[i].symbol
             /\ rounded[k].account = allocated[i].account
  IN rounded[r].targetShares

\* The input rows of a symbol that the rounding gave one share above the floor.
Awarded(symbol) ==
  {i \in DOMAIN allocated :
     /\ allocated[i].symbol = symbol
     /\ RoundedShares(i) = IdealFloor(allocated[i]) + 1}

\* C19. Award rule of the largest-remainder rounding: before the budget repair
\* every row has targetShares equal to the floor of its ideal or one more; in
\* each symbol the rows with one more number round(sum of ideals) - sum of
\* floors; a row with one more has a remainder at least that of every row of
\* the symbol without, and at equal remainders it comes earlier in the input.
C19_AwardRule ==
  (pc \in {"repairing", "converted", "traded"})
  => \A s \in SymbolsOf(allocated) :
       LET mine == {i \in DOMAIN allocated : allocated[i].symbol = s}
           floors == SeqSum([i \in DOMAIN allocated |->
                               IF i \in mine THEN IdealFloor(allocated[i]) ELSE 0])
       IN /\ \A i \in mine :
               RoundedShares(i) \in {IdealFloor(allocated[i]),
                                     IdealFloor(allocated[i]) + 1}
          /\ Cardinality(Awarded(s)) = RoundedIdealTotal(allocated, s) - floors
          /\ \A i \in Awarded(s) : \A j \in mine \ Awarded(s) :
               \/ RemainderAbove(allocated[i], allocated[j])
               \/ RemainderSame(allocated[i], allocated[j]) /\ i < j

\* Reached: a symbol held in two accounts with equal fractional remainders and
\* one extra share to award, which went to the row that comes first.
C19_Witness ==
  /\ pc = "repairing" /\ result = rounded
  /\ \E i, j \in DOMAIN allocated :
       /\ i < j
       /\ allocated[i].symbol = allocated[j].symbol
       /\ RemainderSame(allocated[i], allocated[j])
       /\ IdealNum(allocated[i]) % IdealDen(allocated[i], allocated[i].price) # 0
       /\ i \in Awarded(allocated[i].symbol)
       /\ j \notin Awarded(allocated[i].symbol)

---------------------------------------------------------------------------
\* The rows of an account the repair may reduce: those with shares left.
Eligible(res, account) ==
  {k \in DOMAIN res : res[k].account = account /\ res[k].targetShares > 0}

\* Whether row k stands above the floor of its ideal share count.
AboveFloor(res, k) == res[k].targetShares > floorOfIdeal[k]

\* C20. Preference order of the repair: every decrement takes a row with
\* targetShares > 0; when some row of the account with shares left stands above
\* the floor of its ideal, the row taken is one of those; and no other row of
\* the account with shares left, in the same tier, has a strictly lower price.
C20_RepairPreference ==
  [][(pc = "repairing")
     => \A i \in DOMAIN result :
          (result'[i].targetShares < result[i].targetShares)
          => LET mine == Eligible(result, result[i].account)
             IN /\ result'[i].targetShares = result[i].targetShares - 1
                /\ result[i].targetShares > 0
                /\ (\E k \in mine : AboveFloor(result, k)) => AboveFloor(result, i)
                /\ \A k \in mine :
                     (AboveFloor(result, k) = AboveFloor(result, i))
                     => result[k].price >= result[i].price]_vars

\* Reached: the repair has made its first decrement, on a row that stood above
\* its floor, although a cheaper row of the account with shares left stood at
\* its floor.
C20_Witness ==
  /\ pc \in {"repairing", "converted"}
  /\ \E i \in DOMAIN result :
       /\ Reduced = {i}
       /\ result[i].targetShares = rounded[i].targetShares - 1
       /\ rounded[i].targetShares > floorOfIdeal[i]
       /\ \E k \in Eligible(rounded, rounded[i].account) :
            /\ rounded[k].targetShares <= floorOfIdeal[k]
            /\ rounded[k].price < rounded[i].price

---------------------------------------------------------------------------
\* Whether the account's pre-rounding target total respected its budget.
PreRoundingWithin(account) ==
  AccountPreRounding(allocated, account) <= AccountTotal(allocated, account) + Cent

\* Whether the account's whole-share total in res exceeds its budget.
OverBudget(res, account) ==
  AccountTarget(res, account) > AccountTotal(allocated, account) + Cent

\* The rows of an account keep the shares the per-symbol rounding gave them.
KeepsRounding(account) ==
  \A i \in DOMAIN result :
    result[i].account = account => result[i].targetShares = rounded[i].targetShares

\* C21. Frame of the repair: a repair step changes targetShares only in
\* accounts that are over budget at that moment and whose pre-rounding total
\* was within budget; accounts whose pre-rounding total exceeded the budget and
\* accounts within budget after the per-symbol rounding keep the rounding's
\* targetShares throughout.
C21_RepairFrame ==
  /\ []((pc \in {"repairing", "converted", "traded"})
        => \A a \in AccountsOf(allocated) :
             (~PreRoundingWithin(a) \/ ~OverBudget(rounded, a)) => KeepsRounding(a))
  /\ [][(pc = "repairing")
        => \A i \in DOMAIN result :
             (result'[i].targetShares # result[i].targetShares)
             => /\ OverBudget(result, result[i].account)
                /\ PreRoundingWithin(result[i].account)]_vars

\* Reached: the repair has finished, it reduced one account, and it left alone
\* another account that the rounding put over a budget its pre-rounding total
\* already exceeded.
C21_Witness ==
  /\ pc = "converted"
  /\ Reduced # {}
  /\ \E a \in AccountsOf(allocated) :
       /\ ~PreRoundingWithin(a)
       /\ OverBudget(result, a)
       /\ KeepsRounding(a)

---------------------------------------------------------------------------
\* The number of decrements the repair has made so far.
Decrements ==
  SeqSum([i \in DOMAIN result |-> rounded[i].targetShares - result[i].targetShares])

\* The number of whole shares the per-symbol rounding produced.
RoundedTotal == SeqSum([i \in DOMAIN rounded |-> rounded[i].targetShares])

\* C22. Termination of the repair: every iteration of while (changed) that
\* does not end the loop makes at least one decrement, the decrements never
\* number more than the shares the per-symbol rounding produced, and when the
\* loop has ended no account whose pre-rounding total was within budget is
\* over budget while one of its rows has targetShares > 0.
C22_RepairTermination ==
  /\ []((pc \in {"repairing", "converted", "traded"})
        => Decrements >= 0 /\ Decrements <= RoundedTotal)
  /\ []((pc = "converted")
        => \A a \in AccountsOf(allocated) :
             PreRoundingWithin(a)
             => ~(OverBudget(result, a) /\ Eligible(result, a) # {}))
  /\ [][(pc = "repairing" /\ pc' = "repairing") => Decrements' > Decrements]_vars

\* Reached: the loop has ended after more than one iteration that made a
\* decrement, and one of the rows it reduced has no share left.
C22_Witness ==
  /\ pc = "converted"
  /\ Decrements >= 2
  /\ \E i \in Reduced : result[i].targetShares = 0

---------------------------------------------------------------------------
\* Strategies on malformed economic input

\* Target percentages that need not be sane: none, negative, and values whose
\* sums go above 100.
MalformedPercents == {Undefined, -20, 60, 130}

InitMalformed ==
  /\ \E percents \in [DOMAIN SymbolNames -> MalformedPercents] :
       symbols = [i \in DOMAIN SymbolNames |->
                    [name |-> SymbolNames[i], price |-> SymbolPrices[i],
                     targetPercent |-> percents[i]]]
  /\ \E shares \in [DOMAIN Positions -> ShareCounts] :
       holdings = BuildHoldings(symbols, shares)
  /\ strategy = "none"
  /\ pc = "input"
  /\ allocated = <<>>
  /\ result = <<>>
  /\ floorOfIdeal = <<>>
  /\ rounded = <<>>
  /\ trades = <<>>
  /\ ToolsIdle
  /\ UiIdle

NextMalformed == Allocate

SpecMalformed == InitMalformed /\ [][NextMalformed]_vars

\* The allocations map of calculateRebalance after each symbol of
\* symbolsWithTargets.forEach (and before the first).
ConsolidateSteps(syms, hs) ==
  LET totalValue == TotalValue(hs)
      positive == SelectSeq(syms,
                    LAMBDA s : s.targetPercent # Undefined /\ s.targetPercent > 0)
      symbolTargets == [i \in DOMAIN positive |->
                          [name |-> positive[i].name,
                           k |-> SymbolTarget(totalValue, positive[i].targetPercent)]]
      sorted == SortDesc(symbolTargets)
      st0 == [allocations |-> NoAllocations(syms, hs),
              accountCapacity |->
                [a \in {hs[i].account : i \in DOMAIN hs} |-> AccountTotal(hs, a)]]
  IN {ConsolidateSymbols(SubSeq(sorted, 1, n), AllAccounts(hs), st0).allocations :
        n \in 0..Len(sorted)}

\* The allocations map of calculateRebalanceMinTrades after each symbol of
\* symbolDeltas.forEach, after each account of the reconciliation and after
\* each symbol of the new-symbol pass.
MinTradesSteps(syms, hs) ==
  LET symbolTargets == MinTradesTargets(syms, hs)
      sorted == SortAsc(symbolTargets)
      accounts == AllAccounts(hs)
      afterSymbols(n) ==
        MinTradesSymbols(syms, hs, SubSeq(sorted, 1, n), MinTradesInitial(syms, hs))
      afterAccounts(n) ==
        ReconcileAccounts(hs, SubSeq(accounts, 1, n), afterSymbols(Len(sorted)))
      afterNew(n) ==
        NewSymbols(hs, SubSeq(symbolTargets, 1, n), afterAccounts(Len(accounts)))
  IN {afterSymbols(n) : n \in 0..Len(sorted)}
       \cup {afterAccounts(n) : n \in 0..Len(accounts)}
       \cup {afterNew(n) : n \in 0..Len(symbolTargets)}

\* C23. Capacity bound of the strategies: whatever the target percentages
\* (negative, or summing above 100), after every step of either strategy's
\* allocation and in its output, the targetAmount placed in an account is at
\* most a cent above the account's original total.
C23_CapacityBound ==
  (pc = "allocated")
  => /\ \A a \in AccountsOf(holdings) :
          AccountTargetAmount(allocated, a) <= AccountTotal(holdings, a) + Cent
     /\ \A al \in (IF strategy = "consolidate"
                   THEN ConsolidateSteps(symbols, holdings)
                   ELSE MinTradesSteps(symbols, holdings)) :
          \A a \in AccountsOf(holdings) :
            AccountUsed(al, a) <= AccountTotal(holdings, a) + Cent

\* Reached: percentages with a negative value and a sum above 100; every
\* account is filled to its total and a symbol ends below its target amount,
\* the rest of its demand dropped.
C23_Witness ==
  /\ pc = "allocated"
  /\ \E i, j \in DOMAIN symbols :
       /\ symbols[i].targetPercent < 0 /\ symbols[i].targetPercent # Undefined
       /\ symbols[j].targetPercent = 130
       /\ SymbolTargetAmount(allocated, symbols[j].name)
            < SymbolTarget(TotalValue(holdings), 130)
  /\ Cardinality(AccountsOf(holdings)) = 2
  /\ \A a \in AccountsOf(holdings) :
       AccountTargetAmount(allocated, a) = AccountTotal(holdings, a)

---------------------------------------------------------------------------
\* symbolDeltas of calculateRebalanceMinTrades, in processing order.
SymbolDeltas(syms, hs) == SortAsc(MinTradesTargets(syms, hs))

\* The allocations map after the first n symbols of symbolDeltas.forEach, for
\* every n from 0 to the number of symbols.
AfterSymbols(syms, hs) ==
  LET deltas == SymbolDeltas(syms, hs)
      initial == MinTradesInitial(syms, hs)
      RECURSIVE Steps(_)
      Steps(n) ==
        IF n = 0 THEN <<initial>>
        ELSE LET before == Steps(n - 1)
             IN Append(before,
                  MinTradesSymbol(syms, hs, deltas[n].symbolName,
                                  deltas[n].targetAmount, before[n]))
  IN Steps(Len(deltas))

\* The steps, numbered as the symbols of symbolDeltas, that lowered an
\* allocation (sell steps).
SellSteps(after) ==
  {n \in 1..(Len(after) - 1) :
     \E p \in DOMAIN after[n] : after[n + 1][p] < after[n][p]}

\* The steps that raised an allocation (buy steps).
BuySteps(after) ==
  {n \in 1..(Len(after) - 1) :
     \E p \in DOMAIN after[n] : after[n + 1][p] > after[n][p]}

\* C24. Processing order of Minimize-Trades: the symbols are processed in
\* ascending order of delta (target amount - current total), so no step that
\* raises an allocation comes before a step that lowers one.
C24_ProcessingOrder ==
  (pc = "allocated" /\ strategy = "min_trades")
  => LET deltas == SymbolDeltas(symbols, holdings)
         after == AfterSymbols(symbols, holdings)
         sells == SellSteps(after)
         buys == BuySteps(after)
     IN /\ \A n, m \in DOMAIN deltas : n < m => deltas[n].k <= deltas[m].k
        /\ \A n \in buys : \A m \in sells : m < n
        /\ after[Len(after)]
             = MinTradesSymbols(symbols, holdings, deltas,
                                MinTradesInitial(symbols, holdings))

\* Reached: a Minimize-Trades run with a sell step followed by a buy step,
\* where the symbol bought comes before the symbol sold in the symbol list.
C24_Witness ==
  /\ pc = "allocated" /\ strategy = "min_trades"
  /\ LET deltas == SymbolDeltas(symbols, holdings)
         after == AfterSymbols(symbols, holdings)
         sells == SellSteps(after)
         buys == BuySteps(after)
     IN \E n \in sells : \E m \in buys :
          /\ n < m
          /\ \E i, j \in DOMAIN symbols :
               /\ i < j
               /\ symbols[i].name = deltas[m].symbolName
               /\ symbols[j].name = deltas[n].symbolName

---------------------------------------------------------------------------
\* The accounts that hold the symbol (amount > 0) in the input.
Holders(hs, symbol) ==
  {hs[i].account : i \in {j \in DOMAIN hs : hs[j].symbol = symbol /\ hs[j].amount > 0}}

\* The amount of the symbol the account holds in the input.
HoldingSize(hs, symbol, account) ==
  SeqSum([i \in DOMAIN hs |->
            IF hs[i].symbol = symbol /\ hs[i].account = account
            THEN hs[i].amount ELSE 0])

\* accountTotal - currentUsed: what the account can still take.
AvailableCapacity(hs, allocations, account) ==
  AccountTotal(hs, account) - AccountUsed(allocations, account)

\* What step n added to the symbol's allocation in the account.
Added(after, n, symbol, account) ==
  after[n + 1][<<symbol, account>>] - after[n][<<symbol, account>>]

\* C25. The buys of Minimize-Trades prefer existing holders: in a buy step,
\* what a holder of the symbol receives is at most its account's remaining
\* capacity; a holder receives something only when every strictly larger
\* holder's account is left with capacity of at most 1; and an account that
\* does not hold the symbol receives something only when every holder's
\* account is left with capacity of at most 1 and more than 1 of the demand
\* was still to place after the holders.
C25_BuysPreferHolders ==
  (pc = "allocated" /\ strategy = "min_trades")
  => LET deltas == SymbolDeltas(symbols, holdings)
         after == AfterSymbols(symbols, holdings)
     IN \A n \in BuySteps(after) :
          LET s == deltas[n].symbolName
              holders == Holders(holdings, s)
              toHolders == SeqSum([i \in DOMAIN AccountNames |->
                                     IF AccountNames[i] \in holders
                                     THEN Added(after, n, s, AccountNames[i]) ELSE 0])
          IN \A a \in AccountsOf(holdings) :
               Added(after, n, s, a) > 0
               => /\ Added(after, n, s, a)
                       <= AvailableCapacity(holdings, after[n], a)
                  /\ \A h \in holders :
                       (a \notin holders
                          \/ HoldingSize(holdings, s, h) > HoldingSize(holdings, s, a))
                       => AvailableCapacity(holdings, after[n + 1], h) <= Dollar
                  /\ a \notin holders => deltas[n].k - toHolders > Dollar

\* Reached: a buy step that filled the account of the symbol's only holder
\* and placed the rest, more than 1, in an account that does not hold it.
C25_Witness ==
  /\ pc = "allocated" /\ strategy = "min_trades"
  /\ LET deltas == SymbolDeltas(symbols, holdings)
         after == AfterSymbols(symbols, holdings)
     IN \E n \in BuySteps(after) :
          LET s == deltas[n].symbolName
          IN \E h \in Holders(holdings, s) :
               \E a \in AccountsOf(holdings) \ Holders(holdings, s) :
                 /\ Added(after, n, s, h) > 0
                 /\ Added(after, n, s, a) > Dollar

---------------------------------------------------------------------------
\* The symbols with targetPercent > 0 that no account holds.
NewSymbolNames ==
  {symbols[i].name : i \in {j \in DOMAIN symbols :
      /\ symbols[j].targetPercent > 0
      /\ \A k \in DOMAIN holdings : holdings[k].symbol # symbols[j].name}}

\* The symbol's target amount: totalValue * targetPercent / 100.
TargetOf(name) ==
  LET i == CHOOSE j \in DOMAIN symbols : symbols[j].name = name
  IN SymbolTarget(TotalValue(holdings), symbols[i].targetPercent)

\* C26. New-symbol allocation: under Minimize-Trades, with percentages summing
\* to 100, every symbol with targetPercent > 0 that no account holds ends with
\* a targetAmount total equal to its full target amount.
C26_NewSymbolAllocation ==
  (pc = "allocated" /\ strategy = "min_trades"
     /\ calculateTargetPercentSum(symbols) = 100)
  => \A name \in NewSymbolNames :
       Within(SymbolTargetAmount(allocated, name), TargetOf(name), Cent)

\* C26 as amended.  Minimize-Trades gives every new symbol its full target
\* amount (to a cent) on the inputs, with percentages summing to 100, that its
\* thresholds leave alone: no symbol is inside the noise threshold of the skip
\* rule, and amounts and targets are multiples of a unit larger than the
\* one-dollar capacity cut-off.
C26_NewSymbolAllocationAmended ==
  (pc = "allocated" /\ strategy = "min_trades"
     /\ calculateTargetPercentSum(symbols) = 100
     /\ NothingSkipped /\ CoarseAmounts)
  => \A name \in NewSymbolNames :
       Within(SymbolTargetAmount(allocated, name), TargetOf(name), Cent)

\* Reached: such an input in which a new symbol's full target amount was
\* placed, part in one account and part in another.
C26_Witness ==
  /\ pc = "allocated" /\ strategy = "min_trades"
  /\ calculateTargetPercentSum(symbols) = 100
  /\ NothingSkipped /\ CoarseAmounts
  /\ \E name \in NewSymbolNames :
       /\ SymbolTargetAmount(allocated, name) = TargetOf(name)
       /\ Cardinality({i \in DOMAIN allocated :
                         allocated[i].symbol = name /\ allocated[i].targetAmount > 0}) = 2

---------------------------------------------------------------------------
\* symbolsWithTargets of calculateRebalance, in processing order.
SymbolsWithTargets(syms, hs) ==
  LET positive == SelectSeq(syms,
                    LAMBDA s : s.targetPercent # Undefined /\ s.targetPercent > 0)
  IN SortDesc([i \in DOMAIN positive |->
                 [name |-> positive[i].name,
                  k |-> SymbolTarget(TotalValue(hs), positive[i].targetPercent)]])

\* The allocations and the remaining capacities of calculateRebalance before
\* the first symbol and after each symbol of symbolsWithTargets.forEach.
ConsolidateAfter(syms, hs) ==
  LET order == SymbolsWithTargets(syms, hs)
      st0 == [allocations |-> NoAllocations(syms, hs),
              accountCapacity |->
                [a \in {hs[i].account : i \in DOMAIN hs} |-> AccountTotal(hs, a)]]
      RECURSIVE Steps(_)
      Steps(n) ==
        IF n = 0 THEN <<st0>>
        ELSE LET before == Steps(n - 1)
             IN Append(before,
                  ConsolidateSymbols(<<order[n]>>, AllAccounts(hs), before[n]))
  IN Steps(Len(order))

\* Sum of a capacity map over a set of accounts.
RECURSIVE CapacityOf(_, _)
CapacityOf(capacity, S) ==
  IF S = {} THEN 0
  ELSE LET a == CHOOSE x \in S : TRUE IN capacity[a] + CapacityOf(capacity, S \ {a})

\* C27. Greedy placement of Consolidate: the symbols are processed in
\* descending order of target amount; for each symbol the accounts that host
\* it are those with the most capacity remaining at that moment, all of them
\* but at most one (the one with the least capacity among them) filled to
\* that capacity; and when the remaining capacities can cover the symbol's
\* target, the number of accounts hosting it is the smallest number of
\* accounts whose remaining capacities cover the target.
C27_GreedyPlacement ==
  (pc = "allocated" /\ strategy = "consolidate")
  => LET order == SymbolsWithTargets(symbols, holdings)
         after == ConsolidateAfter(symbols, holdings)
         accounts == AccountsOf(holdings)
     IN /\ \A n, m \in DOMAIN order : n < m => order[n].k >= order[m].k
        /\ \A i \in DOMAIN allocated :
             (\E n \in DOMAIN order : order[n].name = allocated[i].symbol)
             => allocated[i].targetAmount
                  = after[Len(after)].allocations[<<allocated[i].symbol,
                                                    allocated[i].account>>]
        /\ \A n \in DOMAIN order :
             LET capacity == after[n].accountCapacity
                 placed == [a \in accounts |->
                              after[n + 1].allocations[<<order[n].name, a>>]]
                 hosts == {a \in accounts : placed[a] > 0}
                 covers == {S \in SUBSET accounts :
                              CapacityOf(capacity, S) >= order[n].k}
             IN /\ \A a \in hosts : \A b \in accounts \ hosts :
                     capacity[b] <= capacity[a] \/ capacity[b] <= 0
                /\ \A a, b \in hosts :
                     (a # b /\ placed[a] < capacity[a])
                     => placed[b] = capacity[b] /\ capacity[b] >= capacity[a]
                /\ (order[n].k > 0 /\ covers # {})
                   => /\ hosts \in covers
                      /\ \A S \in covers : Cardinality(S) >= Cardinality(hosts)

\* Reached: a Consolidate run that placed one symbol in a single account, the
\* larger one, which covers its target when the other account could not, and
\* another symbol in two accounts, filling the first and part of the second.
C27_Witness ==
  /\ pc = "allocated" /\ strategy = "consolidate"
  /\ LET order == SymbolsWithTargets(symbols, holdings)
         after == ConsolidateAfter(symbols, holdings)
         accounts == AccountsOf(holdings)
     IN /\ \E n \in DOMAIN order : \E a, b \in accounts :
             /\ after[n + 1].allocations[<<order[n].name, a>>] = order[n].k
             /\ order[n].k > 0
             /\ 0 < after[n].accountCapacity[b]
             /\ after[n].accountCapacity[b] < order[n].k
        /\ \E n \in DOMAIN order : \E a, b \in accounts :
             /\ after[n + 1].allocations[<<order[n].name, a>>]
                  = after[n].accountCapacity[a]
             /\ 0 < after[n + 1].allocations[<<order[n].name, b>>]
             /\ after[n + 1].allocations[<<order[n].name, b>>]
                  < after[n].accountCapacity[b]

---------------------------------------------------------------------------
\* Import: from the parsed portfolio (RebalanceInput) to Symbols and Holdings

\* The price column of a #symbols row: empty, 0, or two dollars.
InputPrices == {Undefined, 0, 2 * Dollar}

\* The #symbols rows of an input: for each symbol no row, or a row with one of
\* the prices.
InputSymbolRows ==
  UNION {{SelectSeq([i \in DOMAIN SymbolNames |->
                       [name |-> SymbolNames[i], price |-> f[i]]],
                    LAMBDA r : r.name \in S) :
            f \in [DOMAIN SymbolNames -> InputPrices]} :
         S \in SUBSET {SymbolNames[i] : i \in DOMAIN SymbolNames}}

\* The #holdings rows of an input: account, symbol, shares.
InputHoldingRows ==
  {<<[account |-> "X", symbol |-> "A", shares |-> a],
     [account |-> "Y", symbol |-> "C", shares |-> c]>> : a, c \in ShareCounts}

\* The #targets rows of an input: none, or one for a held and one for an
\* unheld symbol.
InputTargetRows ==
  {<<>>, <<[name |-> "B", percent |-> 40], [name |-> "A", percent |-> 60]>>}

\* parsePortfolioCsv's results.
RebalanceInputs ==
  [exists : {TRUE}, holdings : InputHoldingRows, targets : InputTargetRows,
   symbols : InputSymbolRows]

\* allSymbolNames: a Set filled from the holdings, then from the targets' keys.
RECURSIVE AllSymbolNames(_)
AllSymbolNames(names) ==
  IF names = <<>> THEN <<>>
  ELSE LET front == AllSymbolNames(SubSeq(names, 1, Len(names) - 1))
           n == names[Len(names)]
       IN IF \E i \in DOMAIN front : front[i] = n THEN front ELSE Append(front, n)

\* meta?.price ?? 1.0: the default replaces a missing row or a missing price,
\* and nothing else.
MetaPrice(input, name) ==
  LET rows == SelectSeq(input.symbols, LAMBDA r : r.name = name)
  IN IF rows = <<>> \/ rows[Len(rows)].price = Undefined
     THEN Dollar ELSE rows[Len(rows)].price

buildSymbols(input) ==
  LET names == AllSymbolNames([i \in DOMAIN input.holdings |-> input.holdings[i].symbol]
                                \o [i \in DOMAIN input.targets |-> input.targets[i].name])
  IN [i \in DOMAIN names |->
        LET t == SelectSeq(input.targets, LAMBDA r : r.name = names[i])
        IN [name |-> names[i],
            price |-> MetaPrice(input, names[i]),
            targetPercent |-> IF t = <<>> THEN 0 ELSE t[Len(t)].percent]]

buildHoldings(input, syms) ==
  [i \in DOMAIN input.holdings |->
     LET h == input.holdings[i]
         priced == SelectSeq(syms, LAMBDA s : s.name = h.symbol)
         price == IF priced = <<>> THEN Dollar ELSE priced[Len(priced)].price
     IN [account |-> h.account, symbol |-> h.symbol, shares |-> h.shares,
         price |-> price, amount |-> (h.shares * price) \div ShareUnit,
         targetAmount |-> Undefined, targetShares |-> Undefined]]

InitInput ==
  /\ symbols = <<>>
  /\ holdings = <<>>
  /\ strategy = "none"
  /\ pc = "stored"
  /\ allocated = <<>>
  /\ result = <<>>
  /\ floorOfIdeal = <<>>
  /\ rounded = <<>>
  /\ trades = <<>>
  /\ stored \in RebalanceInputs
  /\ call = NoCall
  /\ reply = ""
  /\ writes = 0
  /\ UiIdle

\* loadPortfolioDataAsync: the Symbols and Holdings of the stored portfolio.
LoadPortfolioData ==
  /\ pc = "stored"
  /\ symbols' = buildSymbols(stored)
  /\ holdings' = buildHoldings(stored, symbols')
  /\ pc' = "input"
  /\ UNCHANGED <<strategy, allocated, result, floorOfIdeal, rounded, trades>>
  /\ UNCHANGED toolVars
  /\ UNCHANGED uiVars

NextInput == LoadPortfolioData

SpecInput == InitInput /\ [][NextInput]_vars

\* C28. No zero price reaches the converter: every Symbol of buildSymbols and
\* every Holding of buildHoldings has price > 0, and every Holding has
\* amount = shares * price.
C28_NoZeroPrice ==
  (pc = "input")
  => /\ \A i \in DOMAIN symbols : symbols[i].price > 0
     /\ \A i \in DOMAIN holdings :
          /\ holdings[i].price > 0
          /\ holdings[i].amount * ShareUnit = holdings[i].shares * holdings[i].price

(***************************************************************************)
(* The user-message bridge between the chat view and the agent loop:       *)
(* waitForUserMessage and sendUserMessage over the module-level            *)
(* messageQueue and resolveUserMessage.                                    *)
(***************************************************************************)

\* The most calls of each bridge function in one run.
MaxMessages == 4

\* The texts a user types.
MessageTexts == {"buy", "sell"}

InitBridge ==
  /\ symbols = <<>>
  /\ holdings = <<>>
  /\ strategy = "min_trades"
  /\ pc = "bridge"
  /\ allocated = <<>>
  /\ result = <<>>
  /\ floorOfIdeal = <<>>
  /\ rounded = <<>>
  /\ trades = <<>>
  /\ ToolsIdle
  /\ UiIdle

\* waitForUserMessage(): a queued message resolves the new promise at once;
\* otherwise the new promise's resolver replaces whatever resolveUserMessage held.
WaitForUserMessage ==
  /\ pc = "bridge"
  /\ Len(waiters) < MaxMessages
  /\ IF Len(messageQueue) > 0
       THEN /\ waiters' = Append(waiters, <<Head(messageQueue)>>)
            /\ messageQueue' = Tail(messageQueue)
            /\ UNCHANGED resolveUserMessage
       ELSE /\ waiters' = Append(waiters, Pending)
            /\ resolveUserMessage' = Len(waiters) + 1
            /\ UNCHANGED messageQueue
  /\ UNCHANGED <<sent, tradesCsv, inFlight>>
  /\ UNCHANGED engineVars
  /\ UNCHANGED toolVars

\* sendUserMessage(text): resolves the promise whose resolver is held and
\* clears it, or queues the text when no resolver is held.
SendUserMessage ==
  /\ pc = "bridge"
  /\ Len(sent) < MaxMessages
  /\ \E text \in MessageTexts :
       /\ sent' = Append(sent, text)
       /\ IF resolveUserMessage # NoWaiter
            THEN /\ waiters' = [waiters EXCEPT ![resolveUserMessage] = <<text>>]
                 /\ resolveUserMessage' = NoWaiter
                 /\ UNCHANGED messageQueue
            ELSE /\ messageQueue' = Append(messageQueue, text)
                 /\ UNCHANGED <<waiters, resolveUserMessage>>
  /\ UNCHANGED <<tradesCsv, inFlight>>
  /\ UNCHANGED engineVars
  /\ UNCHANGED toolVars

NextBridge ==
  \/ WaitForUserMessage
  \/ SendUserMessage

SpecBridge == InitBridge /\ [][NextBridge]_vars

\* C29: under any interleaving of the two calls, the k-th waitForUserMessage
\* resolves with the k-th text passed to sendUserMessage (none lost, duplicated
\* or reordered), and no waiter is still pending once its message has been sent.
C29_FifoMatching ==
  (pc = "bridge") =>
    \A k \in DOMAIN waiters :
      /\ (waiters[k] # Pending /\ k <= Len(sent)) => waiters[k] = <<sent[k]>>
      /\ (waiters[k] # Pending) => k <= Len(sent)
      /\ (k <= Len(sent)) => waiters[k] # Pending

(***************************************************************************)
(* The trades screen (Step4Trades): the selected strategy, the trade list  *)
(* it displays, and the trades.csv it writes through the storage adapter.  *)
(***************************************************************************)

\* The most adapter.write calls the screen issues in one run.
MaxExportWrites == 2

\* The target percentages of the portfolios the screen is opened on.
ExportPercents == {<<60, 40, 0>>, <<0, 40, 60>>}

\* trades.csv as its lines. t.shares.toFixed(2) is the share count in
\* hundredths, t.amount.toFixed(2) the amount in cents.
formatTradesCsv(ts) ==
  <<"account,symbol,type,shares,amount">>
  \o [i \in DOMAIN ts |->
        <<ts[i].account, ts[i].symbol, ts[i].type,
          ts[i].shares * 100, RoundDiv(ts[i].amount, Cent)>>]
  \o <<"">>

\* rebalancedHoldings of the screen for a strategy.
RebalancedHoldings(s) ==
  convertToWholeShares(IF s = "min_trades"
                       THEN calculateRebalanceMinTrades(symbols, holdings)
                       ELSE calculateRebalance(symbols, holdings))

\* The writes in flight after the write effect has run on a trade list: a
\* write is issued, and not awaited, only for a non-empty list.
WriteTradesCsv(ts, pending, issued) ==
  IF Len(ts) > 0
    THEN pending \cup {[n |-> issued + 1, csv |-> formatTradesCsv(ts)]}
    ELSE pending

\* The screen after its first render on a loaded portfolio.
InitExport ==
  /\ \E percents \in ExportPercents :
       symbols = [i \in DOMAIN SymbolNames |->
                    [name |-> SymbolNames[i], price |-> SymbolPrices[i],
                     targetPercent |-> percents[i]]]
  /\ \E shares \in [DOMAIN Positions -> ShareCounts] :
       holdings = BuildHoldings(symbols, shares)
  /\ strategy \in {"min_trades", "consolidate"}
  /\ pc = "export"
  /\ allocated = <<>>
  /\ floorOfIdeal = <<>>
  /\ rounded = <<>>
  /\ result = RebalancedHoldings(strategy)
  /\ trades = generateTrades(result)
  /\ stored = NoPortfolio
  /\ call = NoCall
  /\ reply = ""
  /\ writes = IF Len(trades) > 0 THEN 1 ELSE 0
  /\ messageQueue = <<>>
  /\ resolveUserMessage = NoWaiter
  /\ waiters = <<>>
  /\ sent = <<>>
  /\ tradesCsv = NoFile
  /\ inFlight = WriteTradesCsv(trades, {}, 0)

\* Left or right arrow on the strategy selector: with two strategies either
\* key selects the other one; the render that follows recomputes the trades
\* and runs the write effect.
ToggleStrategy ==
  /\ pc = "export"
  /\ writes < MaxExportWrites
  /\ strategy' = IF strategy = "min_trades" THEN "consolidate" ELSE "min_trades"
  /\ result' = RebalancedHoldings(strategy')
  /\ trades' = generateTrades(result')
  /\ inFlight' = WriteTradesCsv(trades', inFlight, writes)
  /\ writes' = IF Len(trades') > 0 THEN writes + 1 ELSE writes
  /\ UNCHANGED <<symbols, holdings, pc, allocated, floorOfIdeal, rounded>>
  /\ UNCHANGED <<stored, call, reply>>
  /\ UNCHANGED <<messageQueue, resolveUserMessage, waiters, sent, tradesCsv>>

\* One of the issued writes closes its writable: the file now holds its data.
\* Nothing orders the writes among themselves.
CompleteWrite ==
  /\ pc = "export"
  /\ \E w \in inFlight :
       /\ tradesCsv' = w.csv
       /\ inFlight' = inFlight \ {w}
  /\ UNCHANGED engineVars
  /\ UNCHANGED toolVars
  /\ UNCHANGED <<messageQueue, resolveUserMessage, waiters, sent>>

NextExport ==
  \/ ToggleStrategy
  \/ CompleteWrite

SpecExport == InitExport /\ [][NextExport]_vars

\* C30: after any sequence of strategy toggles, once every issued write has
\* completed, trades.csv holds formatTradesCsv of the trade list displayed for
\* the selected strategy, an empty list included. Stated for the runs in which
\* the screen has issued a write at all.
C30_ExportInSync ==
  (pc = "export" /\ inFlight = {} /\ writes > 0)
    => tradesCsv = formatTradesCsv(trades)

====
